---- MODULE Spec2Model ----
(***************************************************************************)
(* State-machine model of the client-side data-freshness subsystem of the  *)
(* stock dashboard:                                                        *)
(*   - the polling engine        usePolling      (src/src/utils/format.ts) *)
(*   - the shared board store    BoardDataProvider                         *)
(*                               (src/src/contexts/BoardDataContext.tsx)   *)
(*   - the TTL cache and facade  getCacheKey, getFromCache, setCache,      *)
(*                               withCache       (src/unnamed/part_003)    *)
(*   - the screening pipeline    EndOfDayPicker                            *)
(*                               (src/src/components/common/Logo.tsx)      *)
(*   - the persistence layer     localStorage and the functions over it    *)
(*                               (src/src/services/storage.ts, Logo.tsx)   *)
(*   - pure functions            the basic filter, the intraday ratio, the *)
(*                               market prefix (Logo.tsx, format.ts)       *)
(* Each component has its own specifications (SpecPoll, SpecBoard,         *)
(* SpecCache, SpecInvalidate, SpecKey, SpecPick, SpecPickUnmount,          *)
(* SpecRecent, SpecHistory, SpecPersist, SpecWatchlist; SpecFilter,        *)
(* SpecRatio and SpecPrefix for the pure functions; FairSpecPoll and       *)
(* FairSpecPick add the fairness the liveness properties need); a          *)
(* specification moves the variables of its component and leaves the       *)
(* others alone.                                                           *)
(*                                                                         *)
(* Execution is the single-threaded event loop of the browser: one action  *)
(* is one task (an event handler, a timer callback, the continuation of an *)
(* await), including the React re-render and the effects it triggers.      *)
(***************************************************************************)
EXTENDS Integers, Sequences, FiniteSets, TLC

VARIABLES
  poll,      \* the state of one usePolling subscription (a record)
  pollEv,    \* history: the last step of the subscription
  board,     \* the state of the BoardDataProvider (a record)
  boardEv,   \* history: the last step of the provider
  cache,     \* the facade's Map<string, CacheItem>: key -> entry or NoEntry
  calls,     \* the withCache calls suspended at `await fetcher()`
  cacheEv,   \* history: the last step of the facade
  now,       \* Date.now(), in abstract time units
  keyIn,     \* the two calls handed to getCacheKey
  keyOut,    \* the keys getCacheKey produced for them
  pick,      \* the state of the EndOfDayPicker and of its screening run
  pickEv,    \* history: the last step of the picker
  fnIn,      \* the arguments handed to a pure function of the program
  fnOut,     \* what the function returned for them
  store,     \* localStorage and the environment's faults on it (a record)
  storeEv    \* history: the last call into the persistence layer

vars == <<poll, pollEv, board, boardEv, cache, calls, cacheEv, now, keyIn, keyOut,
         pick, pickEv, fnIn, fnOut, store, storeEv>>
pollVars == <<poll, pollEv>>
boardVars == <<board, boardEv>>
cacheVars == <<cache, calls, cacheEv>>
keyVars == <<keyIn, keyOut>>
pickVars == <<pick, pickEv>>
fnVars == <<fnIn, fnOut>>
storeVars == <<store, storeEv>>
\* What the actions of one component leave alone (the board's and the cache's
\* actions say themselves what they do to the clock).
nonPoll == <<board, boardEv, cache, calls, cacheEv, now, keyIn, keyOut, pick, pickEv,
             fnIn, fnOut, store, storeEv>>
nonBoard == <<poll, pollEv, cache, calls, cacheEv, keyIn, keyOut, pick, pickEv,
              fnIn, fnOut, store, storeEv>>
nonCache == <<poll, pollEv, board, boardEv, keyIn, keyOut, pick, pickEv,
              fnIn, fnOut, store, storeEv>>
nonKey == <<poll, pollEv, board, boardEv, cache, calls, cacheEv, now, pick, pickEv,
            fnIn, fnOut, store, storeEv>>
nonPick == <<poll, pollEv, board, boardEv, cache, calls, cacheEv, now, keyIn, keyOut,
             fnIn, fnOut, store, storeEv>>
nonFn == <<poll, pollEv, board, boardEv, cache, calls, cacheEv, now, keyIn, keyOut,
           pick, pickEv, store, storeEv>>
nonStore == <<poll, pollEv, board, boardEv, cache, calls, cacheEv, now, keyIn, keyOut,
              pick, pickEv, fnIn, fnOut>>

(***************************************************************************)
(*                       POLLING ENGINE: usePolling                        *)
(***************************************************************************)

\* The `interval` option, in ticks of the timer clock.
Interval == 2
\* At most this many producer invocations are in flight in the model.
MaxInflight == 2
\* lastRefresh holds the k-th distinct timestamp written, saturating here.
MaxStamp == 2

\* The isPaused and enabled a scheduleNext closure captured at its render.
Closure(s) == [isPaused |-> s.isPaused, enabled |-> s.enabled]
NoClosure == [isPaused |-> FALSE, enabled |-> FALSE]

\* The state before the component is mounted: useState / useRef initial values.
PollInitial(en, poh, imm) ==
  [ lifecycle     |-> "new",      \* "new", "mounted", "unmounted"
    enabled       |-> en,         \* options.enabled
    pauseOnHidden |-> poh,        \* options.pauseOnHidden
    immediate     |-> imm,        \* options.immediate
    hidden        |-> FALSE,      \* document.hidden
    isLoading     |-> FALSE,
    lastRefresh   |-> 0,          \* 0 is null
    isPaused      |-> FALSE,
    isMounted     |-> TRUE,       \* isMountedRef.current
    timerRef      |-> "null",     \* "null", "pending", "stale" (fired handle)
    timerLeft     |-> 0,          \* ticks until the pending timeout is due
    timerClosure  |-> NoClosure,  \* the scheduleNext that set the timeout
    sinceStart    |-> 0,          \* history: ticks since the mount, up to Interval
    inflight      |-> << >> ]     \* producer invocations awaiting settlement

\* clearTimer: clearTimeout of a fired handle is a no-op.
clearTimer(s) ==
  IF s.timerRef # "null"
    THEN [s EXCEPT !.timerRef = "null", !.timerLeft = 0, !.timerClosure = NoClosure]
    ELSE s

\* refresh, up to its `await fetcherRef.current()`: the producer is started.
\* `then` is what the caller chained on the returned promise.
refresh(s, then, c) ==
  IF ~s.isMounted
    THEN s
    ELSE [s EXCEPT !.isLoading = TRUE,
                   !.inflight = Append(@, [then |-> then, closure |-> c])]

\* scheduleNext of the render whose isPaused / enabled are c.
scheduleNext(s, c) ==
  LET s1 == clearTimer(s) IN
  IF ~s1.isMounted \/ c.isPaused \/ ~c.enabled
    THEN s1
    ELSE [s1 EXCEPT !.timerRef = "pending", !.timerLeft = Interval,
                    !.timerClosure = c]

\* The rest of refresh without the look at isMountedRef.
refreshSettled_NoMountCheck(s, outcome) ==
  [s EXCEPT !.lastRefresh = IF outcome = "ok"
                              THEN (IF @ < MaxStamp THEN @ + 1 ELSE @)
                              ELSE @,
            !.isLoading = FALSE]

\* refresh, after its await: try / catch / finally.
refreshSettled(s, outcome) ==
  IF ~s.isMounted
    THEN s
    ELSE [s EXCEPT !.lastRefresh = IF outcome = "ok"
                                     THEN (IF @ < MaxStamp THEN @ + 1 ELSE @)
                                     ELSE @,
                   !.isLoading = FALSE]

\* What runs after the awaited refresh: `scheduleNext()` in the timer
\* callback, `.then(scheduleNext)` in the effects; nothing for a manual call.
afterRefresh(s, inv) ==
  IF inv.then = "scheduleNext" THEN scheduleNext(s, inv.closure) ELSE s

\* A refresh without its catch: the rejection escapes, and what was chained on
\* the refresh does not run.
settled_Rethrow(s, inv, outcome) ==
  IF outcome = "err"
    THEN refreshSettled(s, outcome)
    ELSE afterRefresh(refreshSettled(s, outcome), inv)

\* The producer of invocation inv settled: the rest of refresh (the rejection
\* is caught and logged), then what was chained on it.
settled(s, inv, outcome) == afterRefresh(refreshSettled(s, outcome), inv)

\* Cleanup of the start effect.
startEffectCleanup(s) == clearTimer([s EXCEPT !.isMounted = FALSE])

\* A start effect that invokes the producer whatever `immediate` says.
startEffect_AlwaysImmediate(s) ==
  LET s1 == [s EXCEPT !.isMounted = TRUE] IN
  IF s1.enabled /\ ~s1.isPaused
    THEN refresh(s1, "scheduleNext", Closure(s1))
    ELSE s1

\* Body of the start effect.
startEffect(s) ==
  LET s1 == [s EXCEPT !.isMounted = TRUE] IN
  IF s1.enabled /\ ~s1.isPaused
    THEN IF s1.immediate
           THEN refresh(s1, "scheduleNext", Closure(s1))
           ELSE scheduleNext(s1, Closure(s1))
    ELSE s1

\* Body of the isPaused effect.
pausedEffect(s) ==
  IF ~s.isPaused /\ s.enabled THEN scheduleNext(s, Closure(s)) ELSE s

\* A render in which isPaused or enabled changed: the cleanups of the effects
\* that depend on them, then their bodies, in declaration order.
rerender(s) == pausedEffect(startEffect(startEffectCleanup(s)))

\* A visibility handler that only re-arms the timer when the page is shown.
handleVisibilityChange_ScheduleOnly(s) ==
  IF s.hidden
    THEN clearTimer(s)
    ELSE IF ~s.isPaused /\ s.enabled
           THEN scheduleNext(s, Closure(s))
           ELSE s

\* handleVisibilityChange of the current render.
handleVisibilityChange(s) ==
  IF s.hidden
    THEN clearTimer(s)
    ELSE IF ~s.isPaused /\ s.enabled
           THEN refresh(s, "scheduleNext", Closure(s))
           ELSE s

Remove(seq, i) == [j \in 1..(Len(seq) - 1) |-> IF j < i THEN seq[j] ELSE seq[j + 1]]

\* The last step: what it was, how a settled producer ended, what was chained on
\* it, and whether the step started a producer invocation.
Ev(op, outcome, then, started) ==
  [op |-> op, outcome |-> outcome, then |-> then, started |-> started]

\* Whether going from s to t started a producer invocation.
Started(s, t) == Len(t.inflight) > Len(s.inflight)

\* ---- actions of the subscription ----

\* First render and the effects of the mount.
Mount ==
  /\ poll.lifecycle = "new"
  /\ poll' = pausedEffect(startEffect([poll EXCEPT !.lifecycle = "mounted"]))
  /\ pollEv' = Ev("mount", "-", "-", Started(poll, poll'))
  /\ UNCHANGED nonPoll

\* One tick of the clock the pending timeout counts down on.
PollTick ==
  /\ poll.timerRef = "pending"
  /\ poll.timerLeft > 0
  /\ poll' = [poll EXCEPT !.timerLeft = @ - 1,
                          !.sinceStart = IF @ < Interval THEN @ + 1 ELSE @]
  /\ pollEv' = Ev("tick", "-", "-", Started(poll, poll'))
  /\ UNCHANGED nonPoll

\* The timeout callback: `await refresh(); scheduleNext();` up to the await.
TimerFire ==
  /\ poll.timerRef = "pending"
  /\ poll.timerLeft = 0
  /\ Len(poll.inflight) < MaxInflight
  /\ poll' = refresh([poll EXCEPT !.timerRef = "stale"], "scheduleNext",
                     poll.timerClosure)
  /\ pollEv' = Ev("timer", "-", "-", Started(poll, poll'))
  /\ UNCHANGED nonPoll

\* The producer of invocation i settles; the rest of refresh and what was
\* chained on it run.
Settle(i, outcome) ==
  /\ i \in 1..Len(poll.inflight)
  /\ LET inv == poll.inflight[i]
         s1  == [poll EXCEPT !.inflight = Remove(@, i)]
     IN /\ poll' = settled(s1, inv, outcome)
        /\ pollEv' = Ev("settle", outcome, inv.then, FALSE)
  /\ UNCHANGED nonPoll

\* The consumer calls the returned refresh().
ManualRefresh ==
  /\ poll.lifecycle = "mounted"
  /\ Len(poll.inflight) < MaxInflight
  /\ poll' = refresh(poll, "none", NoClosure)
  /\ pollEv' = Ev("refresh", "-", "-", Started(poll, poll'))
  /\ UNCHANGED nonPoll

\* pause(): setIsPaused(true); clearTimer(); then the render it causes.
Pause ==
  /\ poll.lifecycle = "mounted"
  /\ LET s1 == clearTimer(poll) IN
     poll' = IF s1.isPaused THEN s1 ELSE rerender([s1 EXCEPT !.isPaused = TRUE])
  /\ pollEv' = Ev("pause", "-", "-", Started(poll, poll'))
  /\ UNCHANGED nonPoll

\* resume(): setIsPaused(false); then the render it causes.
Resume ==
  /\ poll.lifecycle = "mounted"
  /\ poll.isPaused
  /\ LET s1 == rerender([poll EXCEPT !.isPaused = FALSE]) IN
     /\ Len(s1.inflight) <= MaxInflight
     /\ poll' = s1
  /\ pollEv' = Ev("resume", "-", "-", Started(poll, poll'))
  /\ UNCHANGED nonPoll

\* The parent re-renders the consumer with another `enabled`.
SetEnabled(en) ==
  /\ poll.lifecycle = "mounted"
  /\ en # poll.enabled
  /\ LET s1 == rerender([poll EXCEPT !.enabled = en]) IN
     /\ Len(s1.inflight) <= MaxInflight
     /\ poll' = s1
  /\ pollEv' = Ev("setEnabled", "-", "-", Started(poll, poll'))
  /\ UNCHANGED nonPoll

\* visibilitychange to hidden; the listener exists only with pauseOnHidden.
Hide ==
  /\ poll.lifecycle = "mounted"
  /\ ~poll.hidden
  /\ LET s1 == [poll EXCEPT !.hidden = TRUE] IN
     poll' = IF s1.pauseOnHidden THEN handleVisibilityChange(s1) ELSE s1
  /\ pollEv' = Ev("hide", "-", "-", Started(poll, poll'))
  /\ UNCHANGED nonPoll

\* visibilitychange to visible.
Show ==
  /\ poll.lifecycle = "mounted"
  /\ poll.hidden
  /\ LET s1 == [poll EXCEPT !.hidden = FALSE]
         s2 == IF s1.pauseOnHidden THEN handleVisibilityChange(s1) ELSE s1
     IN /\ Len(s2.inflight) <= MaxInflight
        /\ poll' = s2
  /\ pollEv' = Ev("show", "-", "-", Started(poll, poll'))
  /\ UNCHANGED nonPoll

\* The consumer unmounts: the effect cleanups run, the listener is removed.
Unmount ==
  /\ poll.lifecycle = "mounted"
  /\ poll' = startEffectCleanup([poll EXCEPT !.lifecycle = "unmounted"])
  /\ pollEv' = Ev("unmount", "-", "-", Started(poll, poll'))
  /\ UNCHANGED nonPoll


SettleSome == \E i \in 1..Len(poll.inflight), o \in {"ok", "err"} : Settle(i, o)

PollNext ==
  \/ Mount
  \/ PollTick
  \/ TimerFire
  \/ SettleSome
  \/ ManualRefresh
  \/ Pause
  \/ Resume
  \/ \E en \in BOOLEAN : SetEnabled(en)
  \/ Hide
  \/ Show
  \/ Unmount

(***************************************************************************)
(*                  SHARED BOARD-DATA STORE: BoardDataProvider             *)
(***************************************************************************)

REFRESH_INTERVAL == 30000
MIN_REFRESH_INTERVAL == 10000

\* Date.now() advances by this many milliseconds per tick of the model.
TickMs == 10000
\* The clock stops after this many ticks.
MaxTicks == 5
\* At most this many fetchData invocations are in flight in the model.
MaxFlights == 2

T0 == TickMs
MaxNow == TickMs * MaxTicks
\* What getIndustryList / getConceptList can resolve to; 0 is the initial [].
DataVals == {1, 2}

\* useState / useRef initial values, before the provider is mounted.
BoardInitial ==
  [ lifecycle      |-> "new",    \* "new", "mounted", "unmounted"
    hidden         |-> FALSE,    \* document.hidden
    industryList   |-> 0,
    conceptList    |-> 0,
    loading        |-> TRUE,
    lastUpdated    |-> 0,        \* 0 is null
    isFetching     |-> FALSE,    \* isFetchingRef.current
    isInitialLoad  |-> TRUE,     \* isInitialLoadRef.current
    timerRef       |-> "null",   \* "null", "active", "stale" (cleared handle)
    timerDue       |-> 0,        \* when the active interval fires next
    flights        |-> << >>,    \* fetchData invocations at their await
    unforcedAt     |-> 0,        \* history: when an unforced call last fetched
    unforcedFailed |-> FALSE ]   \* history: that fetch was rejected

\* fetchData(force), without the in-flight guard.
fetchData_NoGuard(b, force, t) ==
  IF ~force /\ b.lastUpdated # 0 /\ t - b.lastUpdated < MIN_REFRESH_INTERVAL
    THEN b
    ELSE [b EXCEPT !.isFetching = TRUE,
                   !.flights = Append(@, [industry |-> 0, concept |-> 0,
                                          forced |-> force])]

\* fetchData(force), without the minimum-interval check.
fetchData_NoThrottle(b, force, t) ==
  IF b.isFetching
    THEN b
    ELSE [b EXCEPT !.isFetching = TRUE,
                   !.flights = Append(@, [industry |-> 0, concept |-> 0,
                                          forced |-> force])]

\* fetchData(force), with the minimum-interval check applied to forced calls too.
fetchData_ForceThrottled(b, force, t) ==
  IF b.isFetching
    THEN b
    ELSE IF b.lastUpdated # 0 /\ t - b.lastUpdated < MIN_REFRESH_INTERVAL
           THEN b
           ELSE [b EXCEPT !.isFetching = TRUE,
                          !.flights = Append(@, [industry |-> 0, concept |-> 0,
                                                 forced |-> force])]

\* fetchData(force), showing the loading state on every fetch.
fetchData_SetsLoading(b, force, t) ==
  IF b.isFetching
    THEN b
    ELSE IF ~force /\ b.lastUpdated # 0 /\ t - b.lastUpdated < MIN_REFRESH_INTERVAL
           THEN b
           ELSE [b EXCEPT !.isFetching = TRUE,
                          !.loading = TRUE,
                          !.flights = Append(@, [industry |-> 0, concept |-> 0,
                                                 forced |-> force])]

\* fetchData(force) at time t, up to its `await Promise.all([...])`: both
\* remote calls are issued.  In a flight, 0 is a call still pending.
fetchData(b, force, t) ==
  IF b.isFetching
    THEN b
    ELSE IF ~force /\ b.lastUpdated # 0 /\ t - b.lastUpdated < MIN_REFRESH_INTERVAL
           THEN b
           ELSE [b EXCEPT !.isFetching = TRUE,
                          !.flights = Append(@, [industry |-> 0, concept |-> 0,
                                                 forced |-> force])]

\* startTimer: window.setInterval(.., REFRESH_INTERVAL).
startTimer(b, t) ==
  [b EXCEPT !.timerRef = "active", !.timerDue = t + REFRESH_INTERVAL]

\* Body of the provider's effect.
boardEffect(b, t) == startTimer(fetchData(b, TRUE, t), t)

\* Cleanup of the provider's effect: the interval is cleared, the ref is kept.
boardEffectCleanup(b) ==
  IF b.timerRef # "null" THEN [b EXCEPT !.timerRef = "stale"] ELSE b

\* The finally block of fetchData.
fetchFinally(b) ==
  [b EXCEPT !.loading = IF b.isInitialLoad /\ b.lifecycle = "mounted"
                          THEN FALSE ELSE @,
            !.isInitialLoad = FALSE,
            !.isFetching = FALSE]

\* fetchData after Promise.all resolved: the setters, finally, and the render
\* they cause, which re-runs the effect when lastUpdated changed.
fetchSucceeded(b, ind, con, t) ==
  LET s1 == IF b.lifecycle = "mounted"
              THEN [b EXCEPT !.industryList = ind, !.conceptList = con,
                             !.lastUpdated = t]
              ELSE b
      s2 == fetchFinally(s1)
  IN IF s2.lifecycle = "mounted" /\ s2.lastUpdated # b.lastUpdated
       THEN boardEffect(boardEffectCleanup(s2), t)
       ELSE s2

\* fetchData whose rejection skips the finally block.
fetchFailed_NoFinally(b) == b

\* fetchData after Promise.all rejected: catch, finally.
fetchFailed(b) == fetchFinally(b)

\* Whether going from b to c issued a pair of remote calls.
Issued(b, c) == Len(c.flights) > Len(b.flights)

\* History: c is what an unforced fetchData call at time t made of b.
noteUnforced(b, c, t) ==
  IF Issued(b, c)
    THEN [c EXCEPT !.unforcedAt = t, !.unforcedFailed = FALSE]
    ELSE c

\* The provider's handleVisibilityChange.
boardVisibilityChange(b, t) ==
  IF b.hidden
    THEN IF b.timerRef # "null"
           THEN [b EXCEPT !.timerRef = "null", !.timerDue = 0]
           ELSE b
    ELSE LET s1 == IF b.lastUpdated # 0 /\ t - b.lastUpdated > REFRESH_INTERVAL
                     THEN noteUnforced(b, fetchData(b, FALSE, t), t)
                     ELSE b
         IN IF s1.timerRef = "null" THEN startTimer(s1, t) ELSE s1

\* The last step: what it was, whether it was (of) a forced fetchData, and
\* whether it issued a pair of remote calls.
BEv(op, force, issued) == [op |-> op, force |-> force, issued |-> issued]

\* ---- actions of the provider ----

BoardMount ==
  /\ board.lifecycle = "new"
  /\ board' = boardEffect([board EXCEPT !.lifecycle = "mounted"], now)
  /\ boardEv' = BEv("mount", TRUE, Issued(board, board'))
  /\ UNCHANGED nonBoard
  /\ UNCHANGED now

BoardTick ==
  /\ now + TickMs <= MaxNow
  /\ ~(board.timerRef = "active" /\ board.timerDue <= now)
  /\ now' = now + TickMs
  /\ boardEv' = BEv("tick", FALSE, FALSE)
  /\ UNCHANGED nonBoard
  /\ UNCHANGED board

\* The setInterval callback.
IntervalFire ==
  /\ board.timerRef = "active"
  /\ board.timerDue <= now
  /\ LET s1 == [board EXCEPT !.timerDue = now + REFRESH_INTERVAL]
         s2 == IF ~s1.hidden
                 THEN noteUnforced(s1, fetchData(s1, FALSE, now), now)
                 ELSE s1
     IN /\ Len(s2.flights) <= MaxFlights
        /\ board' = s2
  /\ boardEv' = BEv("interval", FALSE, Issued(board, board'))
  /\ UNCHANGED nonBoard
  /\ UNCHANGED now

\* A caller of fetchData(force): the context's refresh() is fetchData(true).
CallFetchData(force) ==
  /\ board.lifecycle = "mounted"
  /\ LET s1 == fetchData(board, force, now) IN
     /\ Len(s1.flights) <= MaxFlights
     /\ board' = IF force THEN s1 ELSE noteUnforced(board, s1, now)
  /\ boardEv' = BEv("fetchData", force, Issued(board, board'))
  /\ UNCHANGED nonBoard
  /\ UNCHANGED now

\* One remote call of flight i resolves with v; when both have, Promise.all
\* resolves and fetchData continues.
ResolveRemote(i, which, v) ==
  /\ i \in 1..Len(board.flights)
  /\ LET f  == board.flights[i]
         g  == IF which = "industry" THEN [f EXCEPT !.industry = v]
                                     ELSE [f EXCEPT !.concept = v]
     IN /\ IF which = "industry" THEN f.industry = 0 ELSE f.concept = 0
        /\ IF g.industry # 0 /\ g.concept # 0
             THEN LET s1 == fetchSucceeded(
                              [board EXCEPT !.flights = Remove(@, i)],
                              g.industry, g.concept, now)
                  IN /\ Len(s1.flights) <= MaxFlights
                     /\ board' = s1
                     /\ boardEv' = BEv("resolved", f.forced,
                                      Issued([board EXCEPT !.flights = Remove(@, i)],
                                             board'))
             ELSE /\ board' = [board EXCEPT !.flights[i] = g]
                  /\ boardEv' = BEv("partial", f.forced, Issued(board, board'))
  /\ UNCHANGED <<now, nonBoard>>

\* One remote call of flight i rejects: Promise.all rejects at once.
RejectRemote(i, which) ==
  /\ i \in 1..Len(board.flights)
  /\ LET f  == board.flights[i]
         s1 == fetchFailed([board EXCEPT !.flights = Remove(@, i)])
     IN /\ IF which = "industry" THEN f.industry = 0 ELSE f.concept = 0
        /\ board' = IF ~f.forced THEN [s1 EXCEPT !.unforcedFailed = TRUE] ELSE s1
        /\ boardEv' = BEv("rejected", f.forced, Issued(board, board'))
  /\ UNCHANGED <<now, nonBoard>>

BoardHide ==
  /\ board.lifecycle = "mounted"
  /\ ~board.hidden
  /\ board' = boardVisibilityChange([board EXCEPT !.hidden = TRUE], now)
  /\ boardEv' = BEv("hide", FALSE, Issued(board, board'))
  /\ UNCHANGED nonBoard
  /\ UNCHANGED now

BoardShow ==
  /\ board.lifecycle = "mounted"
  /\ board.hidden
  /\ LET s1 == boardVisibilityChange([board EXCEPT !.hidden = FALSE], now) IN
     /\ Len(s1.flights) <= MaxFlights
     /\ board' = s1
  /\ boardEv' = BEv("show", FALSE, Issued(board, board'))
  /\ UNCHANGED nonBoard
  /\ UNCHANGED now

BoardUnmount ==
  /\ board.lifecycle = "mounted"
  /\ board' = boardEffectCleanup([board EXCEPT !.lifecycle = "unmounted"])
  /\ boardEv' = BEv("unmount", FALSE, Issued(board, board'))
  /\ UNCHANGED nonBoard
  /\ UNCHANGED now


BoardNext ==
  \/ BoardMount
  \/ BoardTick
  \/ IntervalFire
  \/ \E force \in BOOLEAN : CallFetchData(force)
  \/ \E i \in 1..Len(board.flights), w \in {"industry", "concept"}, v \in DataVals :
       ResolveRemote(i, w, v)
  \/ \E i \in 1..Len(board.flights), w \in {"industry", "concept"} :
       RejectRemote(i, w)
  \/ BoardHide
  \/ BoardShow
  \/ BoardUnmount

(***************************************************************************)
(*                  DATA-ACCESS FACADE: cache keys                         *)
(***************************************************************************)

\* JavaScript values handed to getCacheKey.  A string is one unnamed item, an
\* array of strings its items in order, an object its (name, value) pairs in
\* insertion order, undefined nothing.
Str(x) == [t |-> "str", v |-> << <<"", x>> >>]
Arr(xs) == [t |-> "arr", v |-> [i \in 1..Len(xs) |-> <<"", xs[i]>>]]
Obj(ps) == [t |-> "obj", v |-> ps]
Undef == [t |-> "undef", v |-> << >>]

\* JSON text is a sequence of tokens: punctuation and string literals.
P(c) == << <<"p", c>> >>
Lit(x) == << <<"s", x>> >>

RECURSIVE JoinItems(_, _)
\* The string literals of items i.. of an array, separated by commas.
JoinItems(v, i) ==
  IF i > Len(v) THEN << >>
  ELSE (IF i > 1 THEN P(",") ELSE << >>) \o Lit(v[i][2]) \o JoinItems(v, i + 1)

RECURSIVE JoinProps(_, _)
\* The "name":"value" members i.. of an object, in insertion order.
JoinProps(v, i) ==
  IF i > Len(v) THEN << >>
  ELSE (IF i > 1 THEN P(",") ELSE << >>)
         \o Lit(v[i][1]) \o P(":") \o Lit(v[i][2]) \o JoinProps(v, i + 1)

\* JSON.stringify of one element of the args array (undefined becomes null).
stringifyElement(x) ==
  CASE x.t = "str" -> Lit(x.v[1][2])
    [] x.t = "arr" -> P("[") \o JoinItems(x.v, 1) \o P("]")
    [] x.t = "obj" -> P("{") \o JoinProps(x.v, 1) \o P("}")
    [] OTHER -> P("null")

RECURSIVE JoinArgs(_, _)
JoinArgs(args, i) ==
  IF i > Len(args) THEN << >>
  ELSE (IF i > 1 THEN P(",") ELSE << >>)
         \o stringifyElement(args[i]) \o JoinArgs(args, i + 1)

\* JSON.stringify(args) of the rest-parameter array.
stringify(args) == P("[") \o JoinArgs(args, 1) \o P("]")

\* getCacheKey: `${method}:${JSON.stringify(args)}`.
getCacheKey(method, args) == << <<"m", method>> >> \o P(":") \o stringify(args)

\* Value equality of two JavaScript values: objects are equal when they have
\* the same properties with the same values, whatever the insertion order.
ValueEqual(a, b) ==
  /\ a.t = b.t
  /\ IF a.t = "obj"
       THEN /\ Len(a.v) = Len(b.v)
            /\ {a.v[i] : i \in 1..Len(a.v)} = {b.v[i] : i \in 1..Len(b.v)}
       ELSE a.v = b.v

ArgsEqual(as, bs) ==
  /\ Len(as) = Len(bs)
  /\ \A i \in 1..Len(as) : ValueEqual(as[i], bs[i])

\* The calls of the key specification: getHistoryKline / getIndustryKline
\* (symbol, options) with options undefined or an object literal.
KeyMethods == {"getHistoryKline", "getIndustryKline"}
KeySymbols == {"sh600519", "sz000001"}
Periods == {"daily", "weekly"}
Adjusts == {"qfq", "hfq"}
OptionValues ==
  {Undef, Obj(<< >>)}
  \cup {Obj(<< <<"period", p>> >>) : p \in Periods}
  \cup {Obj(<< <<"adjust", a>> >>) : a \in Adjusts}
  \cup {Obj(<< <<"period", p>>, <<"adjust", a>> >>) : p \in Periods, a \in Adjusts}
  \cup {Obj(<< <<"adjust", a>>, <<"period", p>> >>) : p \in Periods, a \in Adjusts}
KeyCalls ==
  {[method |-> m, args |-> <<Str(y), o>>] :
     m \in KeyMethods, y \in KeySymbols, o \in OptionValues}

\* The facade builds the keys of the two calls.
ComputeKeys ==
  /\ keyOut = << >>
  /\ keyOut' = <<getCacheKey(keyIn[1].method, keyIn[1].args),
                 getCacheKey(keyIn[2].method, keyIn[2].args)>>
  /\ UNCHANGED <<keyIn, nonKey>>



(***************************************************************************)
(*                  TTL CACHE AND withCache                                *)
(***************************************************************************)

\* DEFAULT_TTL.quotes and DEFAULT_TTL.fundFlow.
TTL_quotes == 5000
TTL_fundFlow == 30000

\* At most this many withCache calls are suspended in the model.
MaxCalls == 2

\* The cached facade calls of the cache specification.
Endpoints ==
  { [key |-> getCacheKey("getFullQuotes", <<Arr(<<"sh600519">>)>>),
     ttl |-> TTL_quotes],
    [key |-> getCacheKey("getFundFlow", <<Arr(<<"sh600519">>)>>),
     ttl |-> TTL_fundFlow] }

\* What a remote call can resolve to, and reject with.
NULL == "null"
RemoteVals == {"v1", "v2", NULL}
RemoteErrs == {"e1", "e2"}

\* Map.set and Map.delete on the cache, a function on the keys it holds.
mapSet(c, k, e) == [x \in DOMAIN c \cup {k} |-> IF x = k THEN e ELSE c[x]]
mapDelete(c, k) == [x \in DOMAIN c \ {k} |-> c[x]]

\* getFromCache that leaves an expired entry in the map.
getFromCache_NoEvict(c, key, t) ==
  IF key \notin DOMAIN c
    THEN [value |-> NULL, cache |-> c]
    ELSE IF t - c[key].timestamp > c[key].ttl
           THEN [value |-> NULL, cache |-> c]
           ELSE [value |-> c[key].data, cache |-> c]

\* getFromCache that expires an entry at age = ttl already.
getFromCache_ExpireAtTtl(c, key, t) ==
  IF key \notin DOMAIN c
    THEN [value |-> NULL, cache |-> c]
    ELSE IF t - c[key].timestamp >= c[key].ttl
           THEN [value |-> NULL, cache |-> mapDelete(c, key)]
           ELSE [value |-> c[key].data, cache |-> c]

\* getFromCache(key) at time t: the value returned and the map afterwards.
getFromCache(c, key, t) ==
  IF key \notin DOMAIN c
    THEN [value |-> NULL, cache |-> c]
    ELSE IF t - c[key].timestamp > c[key].ttl
           THEN [value |-> NULL, cache |-> mapDelete(c, key)]
           ELSE [value |-> c[key].data, cache |-> c]

\* setCache(key, data, ttl) at time t.
setCache(c, key, data, ttl, t) ==
  mapSet(c, key, [data |-> data, timestamp |-> t, ttl |-> ttl])

\* withCache that returns whatever a live entry holds, null included.
withCacheCall_ServesNull(c, key, t) ==
  LET r == getFromCache(c, key, t) IN
  [cache |-> r.cache, hit |-> key \in DOMAIN r.cache, value |-> r.value,
   evicted |-> r.cache # c]

\* withCache up to `await fetcher()`: the lookup, and whether it returns.
withCacheCall(c, key, t) ==
  LET r == getFromCache(c, key, t) IN
  [cache |-> r.cache, hit |-> r.value # NULL, value |-> r.value,
   evicted |-> r.cache # c]

\* withCache whose result is returned without being stored.
withCacheResolved_NoStore(c, key, ttl, data, t) ==
  [cache |-> c, kind |-> "return", value |-> data]

\* withCache after the fetcher resolved with data.
withCacheResolved(c, key, ttl, data, t) ==
  [cache |-> setCache(c, key, data, ttl, t), kind |-> "return", value |-> data]

\* withCache that swallows the rejection and caches null.
withCacheRejected_Swallow(c, key, ttl, err, t) ==
  [cache |-> setCache(c, key, NULL, ttl, t), kind |-> "return", value |-> NULL]

\* withCache after the fetcher rejected with err: the await throws.
withCacheRejected(c, key, ttl, err, t) ==
  [cache |-> c, kind |-> "throw", value |-> err]

\* The last step: what it was, for which key, what the remote call settled
\* with, how withCache ended (kind, value), and whether the lookup of that
\* withCache call had evicted an expired entry.
CEv(op, key, remote, kind, value, evicted) ==
  [op |-> op, key |-> key, remote |-> remote, kind |-> kind, value |-> value,
   evicted |-> evicted]

\* ---- actions of the facade ----

\* A cached facade function is called: withCache up to its first return or await.
CacheCall(ep) ==
  /\ LET r == withCacheCall(cache, ep.key, now) IN
     /\ cache' = r.cache
     /\ IF r.hit
          THEN /\ calls' = calls
               /\ cacheEv' = CEv("hit", ep.key, "-", "return", r.value, r.evicted)
          ELSE /\ Len(calls) < MaxCalls
               /\ calls' = Append(calls, [key |-> ep.key, ttl |-> ep.ttl,
                                          evicted |-> r.evicted])
               /\ cacheEv' = CEv("miss", ep.key, "-", "-", "-", r.evicted)
  /\ UNCHANGED <<now, nonCache>>

\* The remote call of suspended call i resolves with data.
CacheResolve(i, data) ==
  /\ i \in 1..Len(calls)
  /\ LET call == calls[i]
         r == withCacheResolved(cache, call.key, call.ttl, data, now)
     IN /\ cache' = r.cache
        /\ cacheEv' = CEv("resolve", call.key, data, r.kind, r.value, call.evicted)
  /\ calls' = Remove(calls, i)
  /\ UNCHANGED <<now, nonCache>>

\* The remote call of suspended call i rejects with err.
CacheReject(i, err) ==
  /\ i \in 1..Len(calls)
  /\ LET call == calls[i]
         r == withCacheRejected(cache, call.key, call.ttl, err, now)
     IN /\ cache' = r.cache
        /\ cacheEv' = CEv("reject", call.key, err, r.kind, r.value, call.evicted)
  /\ calls' = Remove(calls, i)
  /\ UNCHANGED <<now, nonCache>>

CacheTick ==
  /\ now + TickMs <= MaxNow
  /\ now' = now + TickMs
  /\ cacheEv' = CEv("tick", << >>, "-", "-", "-", FALSE)
  /\ UNCHANGED <<cache, calls, nonCache>>


CacheNext ==
  \/ \E ep \in Endpoints : CacheCall(ep)
  \/ \E i \in 1..Len(calls), d \in RemoteVals : CacheResolve(i, d)
  \/ \E i \in 1..Len(calls), e \in RemoteErrs : CacheReject(i, e)
  \/ CacheTick

\* ---- invalidation ----

\* String.prototype.startsWith on a key and a prefix given as their tokens
\* (the prefixes of the model end where a token ends).
startsWith(key, prefix) ==
  Len(prefix) <= Len(key) /\ SubSeq(key, 1, Len(prefix)) = prefix

\* clearAllCache: cache.clear().
clearAllCache(c) == [x \in {} |-> c[x]]

\* An invalidation that deletes the entry of the exact key only.
clearCacheByPrefix_ExactOnly(c, prefix) ==
  [x \in {k \in DOMAIN c : k # prefix} |-> c[x]]

\* clearCacheByPrefix: every key that starts with the prefix is deleted.
clearCacheByPrefix(c, prefix) ==
  [x \in {k \in DOMAIN c : ~startsWith(k, prefix)} |-> c[x]]

\* The cached facade calls of the invalidation specification: two calls of
\* one method with different arguments, and one of another method.
InvalidateEndpoints ==
  Endpoints \cup
  { [key |-> getCacheKey("getFullQuotes", <<Arr(<<"sz000001">>)>>), ttl |-> TTL_quotes] }

\* The strings handed to clearCacheByPrefix: the empty string, a method name,
\* a method name with its colon, whole keys, the name of a method that has
\* no entry, and a key with more text after it.
Prefixes ==
  { << >>,
    << <<"m", "getFullQuotes">> >>,
    << <<"m", "getFullQuotes">> >> \o P(":"),
    << <<"m", "getFundFlow">> >>,
    << <<"m", "getKline">> >>,
    getCacheKey("getFullQuotes", <<Arr(<<"sh600519">>)>>),
    getCacheKey("getFundFlow", <<Arr(<<"sh600519">>)>>),
    getCacheKey("getFullQuotes", <<Arr(<<"sh600519">>)>>) \o Lit("x") }

\* How many entries an invalidation removed.
Removed(n) == IF n = 0 THEN "none" ELSE IF n = 1 THEN "one" ELSE "many"

ClearCacheByPrefix(prefix) ==
  /\ cache' = clearCacheByPrefix(cache, prefix)
  /\ cacheEv' = CEv("clearCacheByPrefix", prefix, "-",
                    Removed(Cardinality(DOMAIN cache \ DOMAIN cache')), "-", FALSE)
  /\ UNCHANGED <<calls, now, nonCache>>

ClearAllCache ==
  /\ cache' = clearAllCache(cache)
  /\ cacheEv' = CEv("clearAllCache", << >>, "-",
                    Removed(Cardinality(DOMAIN cache)), "-", FALSE)
  /\ UNCHANGED <<calls, now, nonCache>>

\* Time passes, once: entries get two different timestamps.
InvalidateTick ==
  /\ now = T0
  /\ CacheTick

InvalidateNext ==
  \/ \E ep \in InvalidateEndpoints : CacheCall(ep)
  \/ \E i \in 1..Len(calls), d \in RemoteVals : CacheResolve(i, d)
  \/ InvalidateTick
  \/ \E p \in Prefixes : ClearCacheByPrefix(p)
  \/ ClearAllCache

(***************************************************************************)
(*                 SCREENING PIPELINE: EndOfDayPicker                      *)
(***************************************************************************)

\* A bare stock code is its sequence of digits.  Numbers of a quote are
\* integers (the volume ratio in tenths); NullNum is a field that is null.
NullNum == -1000000

Quote(code, st, cap, vr, chg, tr) ==
  [ code |-> code,
    st |-> st,                       \* name.includes('ST')
    circulatingMarketCap |-> cap,
    volumeRatio |-> vr,
    changePercent |-> chg,
    turnoverRate |-> tr ]

\* DEFAULT_FILTERS (volumeRatioMin 1.2 in tenths).
DEFAULT_FILTERS ==
  [ marketCapMin |-> 50, marketCapMax |-> 200,
    volumeRatioMin |-> 12,
    changePercentMin |-> 3, changePercentMax |-> 5,
    turnoverRateMin |-> 5, turnoverRateMax |-> 10,
    excludeST |-> TRUE,
    timelineAboveAvgRatio |-> 80 ]

\* The predicate with the ST exclusion always on.
passesBasic_AlwaysExcludeST(q, f) ==
  /\ ~q.st
  /\ ~(\/ q.circulatingMarketCap = NullNum
       \/ q.circulatingMarketCap < f.marketCapMin
       \/ q.circulatingMarketCap > f.marketCapMax)
  /\ ~(q.volumeRatio = NullNum \/ q.volumeRatio < f.volumeRatioMin)
  /\ ~(q.changePercent < f.changePercentMin \/ q.changePercent > f.changePercentMax)
  /\ ~(\/ q.turnoverRate = NullNum
       \/ q.turnoverRate < f.turnoverRateMin
       \/ q.turnoverRate > f.turnoverRateMax)

\* The predicate of filterStocksBasic's filter.
passesBasic(q, f) ==
  /\ ~(f.excludeST /\ q.st)
  /\ ~(\/ q.circulatingMarketCap = NullNum
       \/ q.circulatingMarketCap < f.marketCapMin
       \/ q.circulatingMarketCap > f.marketCapMax)
  /\ ~(q.volumeRatio = NullNum \/ q.volumeRatio < f.volumeRatioMin)
  /\ ~(q.changePercent < f.changePercentMin \/ q.changePercent > f.changePercentMax)
  /\ ~(\/ q.turnoverRate = NullNum
       \/ q.turnoverRate < f.turnoverRateMin
       \/ q.turnoverRate > f.turnoverRateMax)

ByChangeDesc(a, b) == a.changePercent > b.changePercent

\* .sort((a, b) => b.changePercent - a.changePercent): Array.prototype.sort
\* is stable, so equal elements keep their order.
sortByChangeDesc(seq) ==
  LET pos(j) == Cardinality({k \in 1..Len(seq) :
                               \/ ByChangeDesc(seq[k], seq[j])
                               \/ (~ByChangeDesc(seq[j], seq[k]) /\ k < j)}) + 1
  IN [n \in 1..Len(seq) |-> seq[CHOOSE j \in 1..Len(seq) : pos(j) = n]]

\* filterStocksBasic: filter, map to the candidate's fields, sort by change
\* percent, largest first.
filterStocksBasic(quotes, f) ==
  LET kept == SelectSeq(quotes, LAMBDA q : passesBasic(q, f))
      mapped == [n \in 1..Len(kept) |->
                   [code |-> kept[n].code, changePercent |-> kept[n].changePercent]]
  IN sortByChangeDesc(mapped)

\* An intraday timeline is its data: points of price and average price.
Pt(price, avg) == [price |-> price, avgPrice |-> avg]

\* ---- IEEE-754 binary64 (the JavaScript number), as far as the ratio
\* (aboveAvgCount / points.length) * 100 needs it.  A positive double is
\* [e, t, a, b, c]: its 53-bit significand is t * 2^52 + a * 2^34 + b * 2^17 + c
\* (t = 1, a below 2^18, b and c below 2^17) and its value is the significand
\* times 2^(e - 52).

\* At most this many points in a timeline whose ratio is computed.
MaxPoints == 50

\* x with u added at the place of c, carries taken up the limbs.
AddUnits(x, u) ==
  LET c1 == x.c + u
      b1 == x.b + c1 \div 2^17
      a1 == x.a + b1 \div 2^17
  IN [e |-> x.e, t |-> x.t + a1 \div 2^18, a |-> a1 % 2^18, b |-> b1 % 2^17,
      c |-> c1 % 2^17]

\* The double num / den of two integers 0 < num <= den < 2^12, as the
\* division rounds it: 52 quotient bits after the leading one, then to
\* nearest, ties to even.
DoubleDiv(num, den) ==
  LET shift == CHOOSE k \in 0..12 : num * 2^k >= den /\ (k = 0 \/ num * 2^(k - 1) < den)
      r0 == num * 2^shift - den
      a == (r0 * 2^18) \div den
      r1 == (r0 * 2^18) % den
      b == (r1 * 2^17) \div den
      r2 == (r1 * 2^17) % den
      c == (r2 * 2^17) \div den
      r3 == (r2 * 2^17) % den
      guard == 2 * r3 >= den
      sticky == (2 * r3) % den # 0
      up == guard /\ (sticky \/ c % 2 = 1)
      x == AddUnits([e |-> 0 - shift, t |-> 1, a |-> a, b |-> b, c |-> c],
                    IF up THEN 1 ELSE 0)
  IN IF x.t = 2 THEN [e |-> 1 - shift, t |-> 1, a |-> 0, b |-> 0, c |-> 0] ELSE x

\* The double d * 100, as the multiplication rounds it.  The exact product
\* has 6 or 7 bits more than the significand; they are rounded off, and the
\* result is left with t holding the leading 7 or 8 bits.
DoubleTimes100(d) ==
  LET c1 == d.c * 100
      b1 == d.b * 100 + c1 \div 2^17
      a1 == d.a * 100 + b1 \div 2^17
      t1 == d.t * 100 + a1 \div 2^18
      c2 == c1 % 2^17
      drop == IF t1 >= 128 THEN 7 ELSE 6
      low == c2 % 2^drop
      half == 2^(drop - 1)
      up == low > half \/ (low = half /\ (c2 \div 2^drop) % 2 = 1)
  IN AddUnits([e |-> d.e, t |-> t1, a |-> a1 % 2^18, b |-> b1 % 2^17, c |-> c2 - low],
              IF up THEN 2^drop ELSE 0)

\* Math.floor of such a double, for an exponent from -12 to 0.
DoubleFloor(d) == (d.t * 2^18 + d.a) \div 2^(18 - d.e)

\* The floor of the double (above / points) * 100, for every count that a
\* timeline of at most MaxPoints points can give.
RatioFloor ==
  [points \in 1..MaxPoints |->
    [above \in 0..points |->
      IF above = 0 THEN 0
      ELSE DoubleFloor(DoubleTimes100(DoubleDiv(above, points)))]]

\* calculateTimelineRatio: the ratio is the double
\* (aboveAvgCount / points.length) * 100; the record keeps its operands,
\* num = 100 * aboveAvgCount and den = points.length (0 / 1 for no data).
calculateTimelineRatio(timeline) ==
  IF Len(timeline) = 0
    THEN [num |-> 0, den |-> 1]
    ELSE [num |-> 100 * Cardinality({n \in 1..Len(timeline) :
                                       timeline[n].price >= timeline[n].avgPrice}),
          den |-> Len(timeline)]

\* ratio >= minRatio, for a whole-number minRatio: the double is at least the
\* integer exactly when its floor is.
ratioAtLeast(r, minRatio) == RatioFloor[r.den][r.num \div 100] >= minRatio

ByRatioDesc(a, b) ==
  a.timelineAboveAvgRatio.num * b.timelineAboveAvgRatio.den
    > b.timelineAboveAvgRatio.num * a.timelineAboveAvgRatio.den

\* results.sort(...) by the above-average ratio, largest first (stable).
sortByRatioDesc(seq) ==
  LET pos(j) == Cardinality({k \in 1..Len(seq) :
                               \/ ByRatioDesc(seq[k], seq[j])
                               \/ (~ByRatioDesc(seq[j], seq[k]) /\ k < j)}) + 1
  IN [n \in 1..Len(seq) |-> seq[CHOOSE j \in 1..Len(seq) : pos(j) = n]]

\* The market prefix inferred in filterWithTimeline.
marketPrefix(code) ==
  IF Head(code) = 6 \/ Head(code) = 9 THEN "sh"
  ELSE IF Head(code) = 4 \/ Head(code) = 8 THEN "bj"
  ELSE "sz"

fullCode(code) == [prefix |-> marketPrefix(code), code |-> code]

\* What is no StockData: the null a dropped symbol maps to.
NoStock ==
  [code |-> << >>, changePercent |-> 0, timelineAboveAvgRatio |-> [num |-> 0, den |-> 1]]

\* The batch size of filterWithTimeline.
batchSize == 5
\* At most this many screening runs are started in the model.
MaxRuns == 2

\* What one step did: timeline fetches it issued, whether it invoked the
\* Stage-3 progress callback, whether it committed results (setStocks of the
\* final list), the toast it raised, and the number of candidates the basic
\* filter gave it (-1 when it did not run the filter).
NoStep ==
  [started |-> 0, progressed |-> FALSE, committed |-> FALSE, toast |-> "none",
   candidates |-> -1]

\* The picker after construction: useState / useRef initial values, and the
\* locals of the run of handleStartAnalysis / filterWithTimeline.
PickInitial ==
  [ isLoading       |-> FALSE,
    loadingProgress |-> [completed |-> 0, total |-> 0, stage |-> ""],
    stocks          |-> << >>,
    hasAnalyzed     |-> FALSE,
    abort           |-> FALSE,     \* abortRef.current
    at              |-> "idle",    \* where the run is suspended: "idle",
                                   \* "stage1" (await getAllAShareQuotes),
                                   \* "stage3" (await Promise.all of a batch)
    basicStocks     |-> << >>,     \* filterWithTimeline's candidates
    i               |-> 0,         \* its loop index
    batch           |-> << >>,     \* the batch in flight, one entry per symbol
    results         |-> << >>,     \* its results so far
    runs            |-> 0,         \* history: runs started
    abortedMidBatch    |-> FALSE,  \* history: abort came while a batch was in flight
    progressAfterAbort |-> 0,      \* history: progress callbacks since then
    hadReject       |-> FALSE,     \* history: a timeline fetch of the run rejected
    mounted         |-> TRUE,      \* the component is mounted
    step            |-> NoStep ]

setLoadingProgress(p, completed, total, stage) ==
  [p EXCEPT !.loadingProgress = [completed |-> completed, total |-> total, stage |-> stage]]

\* The run's locals go away when it ends.
dropLocals(p) ==
  [p EXCEPT !.at = "idle", !.basicStocks = << >>, !.i = 0, !.batch = << >>,
            !.results = << >>]

\* handleStartAnalysis up to `await getAllAShareQuotes(...)`.
handleStartAnalysis(p) ==
  [setLoadingProgress(p, 0, 0, "stage1")
     EXCEPT !.isLoading = TRUE, !.stocks = << >>, !.abort = FALSE,
            !.at = "stage1", !.runs = @ + 1,
            !.abortedMidBatch = FALSE, !.progressAfterAbort = 0,
            !.hadReject = FALSE]

\* A run that ends without clearing the loading flag.
runFinally_KeepsLoading(p) == dropLocals(p)

\* The finally block of handleStartAnalysis.
runFinally(p) == dropLocals([p EXCEPT !.isLoading = FALSE])

\* filterWithTimeline returned: the sort of its results, then
\* handleStartAnalysis commits them unless abort is set; finally.
finishRun(p) ==
  LET finalStocks == sortByRatioDesc(p.results)
      s1 == IF ~p.abort
              THEN [p EXCEPT !.stocks = finalStocks, !.hasAnalyzed = TRUE,
                             !.step.committed = TRUE]
              ELSE p
  IN runFinally(s1)

\* A batch that takes every remaining candidate at once.
launchBatch_All(p) ==
  LET batch == [n \in 1..(Len(p.basicStocks) - p.i) |->
                  [stock |-> p.basicStocks[p.i + n], settled |-> FALSE,
                   result |-> NoStock]]
  IN [p EXCEPT !.batch = batch, !.at = "stage3",
               !.step.started = @ + Len(batch)]

\* One batch is mapped: a timeline fetch is issued for each of its symbols.
launchBatch(p) ==
  LET last == IF p.i + batchSize < Len(p.basicStocks)
                THEN p.i + batchSize ELSE Len(p.basicStocks)
      batch == [n \in 1..(last - p.i) |->
                  [stock |-> p.basicStocks[p.i + n], settled |-> FALSE,
                   result |-> NoStock]]
  IN [p EXCEPT !.batch = batch, !.at = "stage3",
               !.step.started = @ + Len(batch)]

\* The top of filterWithTimeline's loop, without the look at abortRef.
loopTop_NoAbortCheck(p) ==
  IF p.i < Len(p.basicStocks) THEN launchBatch(p) ELSE finishRun(p)

\* The top of filterWithTimeline's loop: the loop condition and the abort check.
loopTop(p) ==
  IF p.i < Len(p.basicStocks) /\ ~p.abort THEN launchBatch(p) ELSE finishRun(p)

\* The same with progress reported as i + batchSize, without Math.min.
batchDone_Unclamped(p) ==
  LET got == SelectSeq([n \in 1..Len(p.batch) |-> p.batch[n].result],
                       LAMBDA r : r # NoStock)
      total == Len(p.basicStocks)
      s1 == [setLoadingProgress(p, p.i + batchSize, total, "stage3")
               EXCEPT !.results = @ \o got,
                      !.batch = << >>,
                      !.step.progressed = TRUE,
                      !.progressAfterAbort = IF p.abortedMidBatch THEN @ + 1 ELSE @,
                      !.i = @ + batchSize]
  IN loopTop(s1)

\* Promise.all of the batch resolved: results are collected in batch order,
\* progress is reported, and the loop goes on.
batchDone(p) ==
  LET got == SelectSeq([n \in 1..Len(p.batch) |-> p.batch[n].result],
                       LAMBDA r : r # NoStock)
      total == Len(p.basicStocks)
      done == IF p.i + batchSize < total THEN p.i + batchSize ELSE total
      s1 == [setLoadingProgress(p, done, total, "stage3")
               EXCEPT !.results = @ \o got,
                      !.batch = << >>,
                      !.step.progressed = TRUE,
                      !.progressAfterAbort = IF p.abortedMidBatch THEN @ + 1 ELSE @,
                      !.i = @ + batchSize]
  IN CHOOSE next \in { loopTop(s) : s \in {s1} } : TRUE

\* What getTodayTimeline settles with: a timeline, or a rejection.
Resolved(data) == [ok |-> TRUE, data |-> data]
Failed == [ok |-> FALSE, data |-> << >>]

\* The async callback of batch.map for one symbol, after its await: the
\* StockData when the ratio reaches minRatio, else null; a rejection is caught
\* and gives null.
timelineResult(stock, outcome, minRatio) ==
  IF ~outcome.ok
    THEN NoStock
    ELSE LET ratio == calculateTimelineRatio(outcome.data)
         IN IF ratioAtLeast(ratio, minRatio)
              THEN [code |-> stock.code, changePercent |-> stock.changePercent,
                    timelineAboveAvgRatio |-> ratio]
              ELSE NoStock

\* The same with no try/catch around the fetch: a rejection rejects
\* Promise.all and ends the run in handleStartAnalysis's catch.
timelineSettled_FailFast(p, k, outcome, minRatio) ==
  LET s1 == [p EXCEPT !.batch[k].settled = TRUE,
                      !.batch[k].result = timelineResult(p.batch[k].stock, outcome, minRatio),
                      !.hadReject = @ \/ ~outcome.ok]
  IN IF ~outcome.ok
       THEN runFinally([s1 EXCEPT !.step.toast = "error"])
       ELSE IF \A n \in 1..Len(s1.batch) : s1.batch[n].settled
              THEN batchDone(s1)
              ELSE s1

\* The fetch of the k-th symbol of the batch settles; when it is the last one
\* Promise.all resolves and the run goes on.
timelineSettled(p, k, outcome, minRatio) ==
  LET s1 == [p EXCEPT !.batch[k].settled = TRUE,
                      !.batch[k].result = timelineResult(p.batch[k].stock, outcome, minRatio),
                      !.hadReject = @ \/ ~outcome.ok]
      rest(s) == IF \A n \in 1..Len(s.batch) : s.batch[n].settled
                   THEN batchDone(s)
                   ELSE s
  IN CHOOSE next \in { rest(s) : s \in {s1} } : TRUE

\* The same without the return on an empty candidate list.
afterQuotes_NoShortCircuit(p, quotes, f) ==
  IF p.abort
    THEN runFinally(p)
    ELSE LET basicFilteredStocks == filterStocksBasic(quotes, f)
             s1 == [setLoadingProgress(p, 0, 100, "stage2")
                      EXCEPT !.step.candidates = Len(basicFilteredStocks)]
         IN loopTop([setLoadingProgress(s1, 0, Len(basicFilteredStocks), "stage3")
                       EXCEPT !.basicStocks = basicFilteredStocks,
                              !.i = 0, !.results = << >>])

\* handleStartAnalysis after getAllAShareQuotes resolved with quotes.
afterQuotes(p, quotes, f) ==
  IF p.abort
    THEN runFinally(p)
    ELSE LET basicFilteredStocks == filterStocksBasic(quotes, f)
             s1 == [setLoadingProgress(p, 0, 100, "stage2")
                      EXCEPT !.step.candidates = Len(basicFilteredStocks)]
         IN IF Len(basicFilteredStocks) = 0
              THEN runFinally([s1 EXCEPT !.step.toast = "info",
                                         !.isLoading = FALSE,
                                         !.hasAnalyzed = TRUE])
              ELSE loopTop([setLoadingProgress(s1, 0, Len(basicFilteredStocks), "stage3")
                              EXCEPT !.basicStocks = basicFilteredStocks,
                                     !.i = 0, !.results = << >>])

\* handleStartAnalysis whose getAllAShareQuotes rejected, without the toast.
quotesRejected_Silent(p) == runFinally(p)

\* handleStartAnalysis after getAllAShareQuotes rejected: catch, finally.
quotesRejected(p) == runFinally([p EXCEPT !.step.toast = "error"])

\* Quotes of the market: six that pass DEFAULT_FILTERS, an ST stock, and one
\* whose market cap is null.
QPass(code, chg) == Quote(code, FALSE, 100, 15, chg, 7)
Q1 == QPass(<<6, 0, 0, 0, 0, 1>>, 5)
Q2 == QPass(<<0, 0, 0, 0, 0, 2>>, 4)
Q3 == QPass(<<3, 0, 0, 0, 0, 3>>, 3)
Q4 == QPass(<<9, 0, 0, 0, 0, 4>>, 5)
Q5 == QPass(<<4, 3, 0, 0, 0, 5>>, 4)
Q6 == QPass(<<8, 3, 0, 0, 0, 6>>, 3)
QST == Quote(<<6, 8, 8, 0, 0, 7>>, TRUE, 100, 15, 4, 7)
QNull == Quote(<<0, 0, 2, 0, 0, 8>>, FALSE, NullNum, 15, 4, 7)

\* What getAllAShareQuotes may resolve with.
Markets ==
  { <<Q3, QST, Q1, Q2, QNull, Q6, Q5, Q4>>,   \* six candidates: two batches
    <<Q3, QST, Q1>>,                          \* two candidates: one batch
    <<QST, QNull>>,                           \* no candidate
    << >> }

\* What getTodayTimeline may resolve with: all points above the average, four
\* of five (80%), two of four (50%), and no data.
Timelines ==
  { <<Pt(11, 10), Pt(12, 10), Pt(10, 10), Pt(13, 11)>>,
    <<Pt(11, 10), Pt(9, 10), Pt(10, 10), Pt(13, 11), Pt(12, 11)>>,
    <<Pt(11, 10), Pt(9, 10), Pt(10, 10), Pt(9, 11)>>,
    << >> }
Outcomes == {Resolved(t) : t \in Timelines} \cup {Failed}

\* The last step of the picker, and the batch entry it settled (or 0).
PEv(op, k) == [op |-> op, k |-> k]

\* A step starts with nothing done yet.
StepBegin(p) == [p EXCEPT !.step = NoStep]

\* What a task of the run leaves behind: React drops the state updates
\* (setIsLoading, setLoadingProgress, setStocks, setHasAnalyzed) made on a
\* component that is no longer mounted; refs and the run's locals are kept.
afterTask(old, new) ==
  IF old.mounted
    THEN new
    ELSE [new EXCEPT !.isLoading = old.isLoading,
                     !.loadingProgress = old.loadingProgress,
                     !.stocks = old.stocks,
                     !.hasAnalyzed = old.hasAnalyzed]

\* ---- actions of the picker ----

\* The start button, which is disabled while isLoading.
StartAnalysis ==
  /\ pick.mounted
  /\ ~pick.isLoading
  /\ pick.runs < MaxRuns
  /\ pick' = handleStartAnalysis(StepBegin(pick))
  /\ pickEv' = PEv("start", 0)
  /\ UNCHANGED nonPick

\* getAllAShareQuotes resolves.
QuotesResolve(quotes) ==
  /\ pick.at = "stage1"
  /\ pickEv' = PEv("quotes", 0)
  /\ pick' = afterTask(pick, afterQuotes(StepBegin(pick), quotes, DEFAULT_FILTERS))
  /\ UNCHANGED nonPick

\* getAllAShareQuotes rejects.
QuotesReject ==
  /\ pick.at = "stage1"
  /\ pickEv' = PEv("quotesRejected", 0)
  /\ pick' = afterTask(pick, quotesRejected(StepBegin(pick)))
  /\ UNCHANGED nonPick

\* One timeline fetch of the batch in flight settles.
TimelineSettle(k, outcome) ==
  /\ pick.at = "stage3"
  /\ k \in 1..Len(pick.batch)
  /\ ~pick.batch[k].settled
  /\ pickEv' = PEv(IF outcome.ok THEN "timeline" ELSE "timelineRejected", k)
  /\ pick' = afterTask(pick, timelineSettled(StepBegin(pick), k, outcome,
                                             DEFAULT_FILTERS.timelineAboveAvgRatio))
  /\ UNCHANGED nonPick

\* Abort is signalled: abortRef.current becomes true.
Abort ==
  /\ pick.at # "idle"
  /\ ~pick.abort
  /\ pick' = [StepBegin(pick) EXCEPT !.abort = TRUE,
                                     !.abortedMidBatch = (pick.at = "stage3")]
  /\ pickEv' = PEv("abort", 0)
  /\ UNCHANGED nonPick

TimelineSettleSome ==
  \E k \in 1..batchSize, o \in Outcomes : TimelineSettle(k, o)

\* The view is left: the component unmounts.  It has no effect cleanup, and
\* nothing tells the run.
PickUnmount ==
  /\ pick.mounted
  /\ pick' = [StepBegin(pick) EXCEPT !.mounted = FALSE]
  /\ pickEv' = PEv("unmount", 0)
  /\ UNCHANGED nonPick

PickNext ==
  \/ StartAnalysis
  \/ \E m \in Markets : QuotesResolve(m)
  \/ QuotesReject
  \/ TimelineSettleSome
  \/ Abort

\* The picker in a view that can be left.
PickUnmountNext ==
  \/ StartAnalysis
  \/ \E m \in Markets : QuotesResolve(m)
  \/ QuotesReject
  \/ TimelineSettleSome
  \/ PickUnmount


(***************************************************************************)
(*        PURE FUNCTIONS OF THE PROGRAM, APPLIED TO DRAWN ARGUMENTS        *)
(***************************************************************************)

\* No function has been handed arguments, none has returned.
NoArgs == [fn |-> "none"]
NoResult == [fn |-> "none"]

\* String.prototype.includes on a string given as its characters.
includes(str, sub) ==
  \E k \in 0..(Len(str) - Len(sub)) : SubSeq(str, k + 1, k + Len(sub)) = sub

\* name.includes('ST') || name.includes('*ST')
nameHasST(name) == includes(name, <<"S", "T">>) \/ includes(name, <<"*", "S", "T">>)

\* A FullQuote with its name.
NamedQuote(code, name, cap, vr, chg, tr) ==
  Quote(code, nameHasST(name), cap, vr, chg, tr)

\* The values a quote's fields are drawn from: around the limits of
\* DEFAULT_FILTERS, and null where the field may be null.
Names ==
  { <<"A", "B">>, <<"S", "T", "A">>, <<"*", "S", "T", "A">>, <<"A", "S", "T">>,
    <<"S", "A", "T">>, <<"s", "t", "A">> }
Caps == {NullNum, 49, 50, 200, 201}
VolRatios == {NullNum, 11, 12}
Changes == {2, 3, 5, 6}
Turnovers == {NullNum, 4, 5, 10, 11}

FilterArgs ==
  { [fn |-> "filterStocksBasic", name |-> n,
     quote |-> NamedQuote(<<6, 0, 0, 0, 0, 1>>, n, c, v, g, t),
     filters |-> [DEFAULT_FILTERS EXCEPT !.excludeST = x]] :
      n \in Names, c \in Caps, v \in VolRatios, g \in Changes, t \in Turnovers,
      x \in BOOLEAN }

\* filterStocksBasic is applied to a market of the one quote.
ApplyFilter ==
  /\ fnIn.fn = "filterStocksBasic"
  /\ fnOut = NoResult
  /\ fnOut' = [fn |-> "filterStocksBasic",
               list |-> filterStocksBasic(<<fnIn.quote>>, fnIn.filters)]
  /\ UNCHANGED fnIn
  /\ UNCHANGED nonFn

FilterNext == ApplyFilter

\* A timeline of `points` points of which the first `above` are at or above
\* the average price (at it and above it in turn) and the others below.
TimelineOf(above, points) ==
  [n \in 1..points |->
     IF n > above THEN Pt(9, 10)
     ELSE IF n % 2 = 1 THEN Pt(10, 10) ELSE Pt(11, 10)]

\* The floors timelineAboveAvgRatio is drawn from (whole percents).
Floors == {0, 29, 40, 50, 57, 58, 60, 80, 100}

RatioArgs ==
  { [fn |-> "timelineRatio", timeline |-> t, minRatio |-> r] :
      t \in {TimelineOf(a, n) : a \in 0..MaxPoints, n \in 0..MaxPoints} \cup Timelines,
      r \in Floors }

\* One callback of batch.map after its fetch resolved with the timeline:
\* calculateTimelineRatio and the comparison with minRatio.
ApplyRatio ==
  /\ fnIn.fn = "timelineRatio"
  /\ fnOut = NoResult
  /\ fnOut' = [fn |-> "timelineRatio",
               result |-> timelineResult([code |-> <<6, 0, 0, 0, 0, 1>>, changePercent |-> 4],
                                         Resolved(fnIn.timeline), fnIn.minRatio)]
  /\ UNCHANGED fnIn
  /\ UNCHANGED nonFn

RatioNext == ApplyRatio

\* ---- market prefixes ----

\* A string is the sequence of its characters; the digits of a bare code as
\* characters.
DigitChars == <<"0", "1", "2", "3", "4", "5", "6", "7", "8", "9">>
codeString(code) == [n \in 1..Len(code) |-> DigitChars[code[n] + 1]]
isDigit(c) == \E k \in 1..10 : DigitChars[k] = c

\* String.prototype.toLowerCase on the letters of a market name.
toLowerCase(c) ==
  IF c = "S" THEN "s" ELSE IF c = "H" THEN "h" ELSE IF c = "Z" THEN "z"
  ELSE IF c = "B" THEN "b" ELSE IF c = "J" THEN "j" ELSE c

\* The markets of the patterns (sh|sz|bj).
MarketNames == {<<"s", "h">>, <<"s", "z">>, <<"b", "j">>}

\* parseStockCode on a string without surrounding white space: the prefixed
\* form, the suffixed form, then the bare six digits with the market inferred
\* from the first digit.
parseStockCode(str) ==
  LET n == Len(str)
      allDigits(a, b) == \A k \in a..b : isDigit(str[k])
      lower2(a) == <<toLowerCase(str[a]), toLowerCase(str[a + 1])>>
      prefixPlain == n = 8 /\ lower2(1) \in MarketNames /\ allDigits(3, 8)
      prefixDot == n = 9 /\ lower2(1) \in MarketNames /\ str[3] = "." /\ allDigits(4, 9)
      suffixMatch == n = 9 /\ allDigits(1, 6) /\ str[7] = "." /\ lower2(8) \in MarketNames
      numericMatch == n = 6 /\ allDigits(1, 6)
  IN IF n = 0 THEN [market |-> << >>, symbol |-> << >>]
     ELSE IF prefixPlain THEN [market |-> lower2(1), symbol |-> SubSeq(str, 3, 8)]
     ELSE IF prefixDot THEN [market |-> lower2(1), symbol |-> SubSeq(str, 4, 9)]
     ELSE IF suffixMatch THEN [market |-> lower2(8), symbol |-> SubSeq(str, 1, 6)]
     ELSE IF numericMatch /\ str[1] = "6" THEN [market |-> <<"s", "h">>, symbol |-> str]
     ELSE IF numericMatch /\ (str[1] = "0" \/ str[1] = "3")
            THEN [market |-> <<"s", "z">>, symbol |-> str]
     ELSE IF numericMatch /\ (str[1] = "4" \/ str[1] = "8")
            THEN [market |-> <<"b", "j">>, symbol |-> str]
     ELSE [market |-> << >>, symbol |-> str]

\* normalizeStockCode on such a string.
normalizeStockCode(str) ==
  LET parsed == parseStockCode(str)
  IN IF Len(str) = 0 THEN << >>
     ELSE IF Len(parsed.market) > 0 THEN parsed.market \o parsed.symbol
     ELSE str

\* The prefix inferred by the card's handleCardClick.
cardClickPrefix(code) ==
  IF Head(code) = 6 \/ Head(code) = 9 THEN "sh"
  ELSE IF Head(code) = 4 \/ Head(code) = 8 THEN "bj"
  ELSE "sz"

\* The prefix inferred by handleAddWatchlist.
addWatchlistPrefix(code) ==
  IF Head(code) = 6 \/ Head(code) = 9 THEN "sh"
  ELSE IF Head(code) = 4 \/ Head(code) = 8 THEN "bj"
  ELSE "sz"

\* The prefix inferred by handleBatchAddWatchlist.
batchAddWatchlistPrefix(code) ==
  IF Head(code) = 6 \/ Head(code) = 9 THEN "sh"
  ELSE IF Head(code) = 4 \/ Head(code) = 8 THEN "bj"
  ELSE "sz"

\* A template literal `${marketPrefix}${code}` as a string.
prefixed(prefix, code) ==
  (IF prefix = "sh" THEN <<"s", "h">>
   ELSE IF prefix = "bj" THEN <<"b", "j">>
   ELSE <<"s", "z">>) \o codeString(code)

\* Bare six-digit codes: every first digit, every second digit.
PrefixArgs ==
  { [fn |-> "marketPrefix", code |-> <<a, b, 0, 0, 0, 1>>] : a \in 0..9, b \in 0..9 }

\* Every place that turns the bare code into a fully-qualified one does so.
ApplyPrefix ==
  /\ fnIn.fn = "marketPrefix"
  /\ fnOut = NoResult
  /\ fnOut' = [fn |-> "marketPrefix",
               timeline |-> prefixed(marketPrefix(fnIn.code), fnIn.code),
               card |-> prefixed(cardClickPrefix(fnIn.code), fnIn.code),
               watch |-> normalizeStockCode(
                           prefixed(addWatchlistPrefix(fnIn.code), fnIn.code)),
               batchWatch |-> normalizeStockCode(
                                prefixed(batchAddWatchlistPrefix(fnIn.code), fnIn.code)),
               parsed |-> parseStockCode(codeString(fnIn.code)),
               normalized |-> normalizeStockCode(codeString(fnIn.code))]
  /\ UNCHANGED fnIn
  /\ UNCHANGED nonFn

PrefixNext == ApplyPrefix

(***************************************************************************)
(*                 PERSISTENCE: localStorage and its users                 *)
(***************************************************************************)

\* What localStorage holds under a key: nothing (getItem returns null), the
\* JSON text of a value the program wrote, or text JSON.parse throws on.
\* JSON.stringify followed by JSON.parse gives back the values stored here
\* (finite numbers, booleans, strings, arrays and objects of them).
NoItem == [json |-> "none"]
Corrupt == [json |-> "corrupt"]
Json(v) == [json |-> "ok", value |-> v]

\* The storage keys of the picker and of the storage service, the picker's
\* recentUsage state, and (history) whether addRecentUsage has sliced an entry
\* off.
StoreInitial ==
  [ recent      |-> NoItem,     \* 'end-of-day-picker-recent'
    filters     |-> NoItem,     \* 'end-of-day-picker-settings'
    history     |-> NoItem,     \* 'search.recent'
    groups      |-> NoItem,     \* 'watchlist.groups'
    recentUsage |-> << >>,
    sliced      |-> FALSE ]

\* The last call into the persistence layer: the operation, its argument,
\* whether it returned or threw, and what it returned.
SEv(op, arg, outcome) == [op |-> op, arg |-> arg, outcome |-> outcome]

\* localStorage.setItem(key, JSON.stringify(v)); it throws, storing nothing,
\* when the quota is exceeded.
setItem(st, key, v, quotaExceeded) ==
  IF quotaExceeded THEN st ELSE [st EXCEPT ![key] = Json(v)]

MAX_RECENT_USAGE == 5

\* The filter configurations a run is started with: they differ in one limit.
MaxConfigs == 6
Configs == {[DEFAULT_FILTERS EXCEPT !.marketCapMin = 50 + k] : k \in 0..(MaxConfigs - 1)}

loadRecentUsageFromStorage(st) ==
  IF st.recent.json = "ok" THEN st.recent.value ELSE << >>

\* saveRecentUsageToStorage: the write inside try / catch.
saveRecentUsageToStorage(st, recentUsage, quotaExceeded) ==
  setItem(st, "recent", recentUsage, quotaExceeded)

\* addRecentUsage that keeps every entry.
addRecentUsage_NoSlice(st, filters, t, quotaExceeded) ==
  LET recent == loadRecentUsageFromStorage(st)
      newEntry == [filters |-> filters, usedAt |-> t]
      isDuplicate == \E k \in 1..Len(recent) : recent[k].filters = filters
  IN IF isDuplicate THEN st
     ELSE saveRecentUsageToStorage(st, <<newEntry>> \o recent, quotaExceeded)

\* addRecentUsage: equal configurations have equal JSON text, the keys of a
\* configuration being always in the order of DEFAULT_FILTERS.
addRecentUsage(st, filters, t, quotaExceeded) ==
  LET recent == loadRecentUsageFromStorage(st)
      newEntry == [filters |-> filters, usedAt |-> t]
      isDuplicate == \E k \in 1..Len(recent) : recent[k].filters = filters
      all == <<newEntry>> \o recent
      updated == IF Len(all) > MAX_RECENT_USAGE THEN SubSeq(all, 1, MAX_RECENT_USAGE) ELSE all
  IN IF isDuplicate THEN st
     ELSE [saveRecentUsageToStorage(st, updated, quotaExceeded)
             EXCEPT !.sliced = @ \/ (~quotaExceeded /\ Len(all) > MAX_RECENT_USAGE)]

\* ---- actions on the recent-use list ----

\* A screening run is started with the filters: handleStartAnalysis records
\* them and reloads the picker's list.  The write may hit the quota.
RecentRunStart(filters, quotaExceeded) ==
  /\ LET s1 == addRecentUsage(store, filters, now, quotaExceeded)
     IN store' = [s1 EXCEPT !.recentUsage = loadRecentUsageFromStorage(s1)]
  /\ storeEv' = SEv("runStart", filters,
                    IF \E k \in 1..Len(loadRecentUsageFromStorage(store)) :
                         loadRecentUsageFromStorage(store)[k].filters = filters
                      THEN "duplicate"
                      ELSE IF quotaExceeded THEN "writeFailed" ELSE "written")
  /\ UNCHANGED nonStore

\* The stored text is damaged from outside the program.
RecentCorrupted ==
  /\ store.recent.json = "ok"
  /\ store' = [store EXCEPT !.recent = Corrupt]
  /\ storeEv' = SEv("corrupted", "recent", "-")
  /\ UNCHANGED nonStore

RecentNext ==
  \/ \E f \in Configs, q \in BOOLEAN : RecentRunStart(f, q)
  \/ RecentCorrupted

\* ---- search history (storage service) ----

MAX_SEARCH_HISTORY == 20

\* At most this many calls on the search history in the model.
MaxHistoryOps == 4

\* safeJsonParse: the fallback for no item and for text that does not parse.
safeJsonParse(item, fallback) ==
  IF item.json = "ok" THEN item.value ELSE fallback

getSearchHistory(st) == safeJsonParse(st.history, << >>)

\* addSearchHistory without the removal of the item's earlier entry.
addSearchHistory_NoDedupe(st, code, t, quotaExceeded) ==
  LET history == getSearchHistory(st)
      unshifted == <<[code |-> code, timestamp |-> t]>> \o history
      limited == IF Len(unshifted) > MAX_SEARCH_HISTORY
                   THEN SubSeq(unshifted, 1, MAX_SEARCH_HISTORY) ELSE unshifted
  IN setItem(st, "history", limited, quotaExceeded)

\* addSearchHistory: filter out the code, unshift the item stamped with
\* Date.now(), slice to MAX_SEARCH_HISTORY, setItem (not in a try).
addSearchHistory(st, code, t, quotaExceeded) ==
  LET history == SelectSeq(getSearchHistory(st), LAMBDA h : h.code # code)
      unshifted == <<[code |-> code, timestamp |-> t]>> \o history
      limited == IF Len(unshifted) > MAX_SEARCH_HISTORY
                   THEN SubSeq(unshifted, 1, MAX_SEARCH_HISTORY) ELSE unshifted
  IN setItem(st, "history", limited, quotaExceeded)

\* clearSearchHistory: localStorage.removeItem.
clearSearchHistory(st) == [st EXCEPT !.history = NoItem]

\* The history n earlier searches left in localStorage: the codes 1 to n,
\* searched in that order before the clock of the model starts.
EarlierSearches(n) == [k \in 1..n |-> [code |-> n - k + 1, timestamp |-> T0 - k]]

\* The codes searched in the model: for a history of 20, its oldest entry,
\* one in the middle, and two that are not in it.
SearchCodes == {1, 10, 21, 22}

\* What the search-history actions leave alone; they advance the clock.
nonStoreClock ==
  <<poll, pollEv, board, boardEv, cache, calls, cacheEv, keyIn, keyOut,
    pick, pickEv, fnIn, fnOut>>

\* ---- actions on the search history ----

AddSearchHistory(code, quotaExceeded) ==
  /\ now < T0 + MaxHistoryOps
  /\ now' = now + 1
  /\ store' = addSearchHistory(store, code, now', quotaExceeded)
  /\ storeEv' = SEv("addSearchHistory", code, IF quotaExceeded THEN "threw" ELSE "returned")
  /\ UNCHANGED nonStoreClock

ClearSearchHistory ==
  /\ now < T0 + MaxHistoryOps
  /\ now' = now + 1
  /\ store' = clearSearchHistory(store)
  /\ storeEv' = SEv("clearSearchHistory", 0, "returned")
  /\ UNCHANGED nonStoreClock

\* The stored text is damaged from outside the program.
HistoryCorrupted ==
  /\ store.history.json = "ok"
  /\ store' = [store EXCEPT !.history = Corrupt]
  /\ storeEv' = SEv("corrupted", 0, "-")
  /\ UNCHANGED nonStore

HistoryNext ==
  \/ \E c \in SearchCodes, q \in BOOLEAN : AddSearchHistory(c, q)
  \/ ClearSearchHistory
  \/ HistoryCorrupted

\* ---- filter settings and watch-list groups ----

\* loadFiltersFromStorage: { ...DEFAULT_FILTERS, ...parsed } of a stored
\* configuration is that configuration; no item, or a throw of JSON.parse
\* (caught), gives DEFAULT_FILTERS.
loadFiltersFromStorage(st) ==
  IF st.filters.json = "ok" THEN st.filters.value ELSE DEFAULT_FILTERS

\* saveFiltersToStorage: setItem inside try / catch; it returns either way.
saveFiltersToStorage(st, filters, quotaExceeded) ==
  [state |-> setItem(st, "filters", filters, quotaExceeded), threw |-> FALSE]

\* DEFAULT_WATCHLIST_GROUPS (a group is its id and its codes).
DEFAULT_WATCHLIST_GROUPS == <<[id |-> "default", codes |-> << >>]>>

\* saveWatchlistGroups: setItem, not in a try: a quota error is thrown on.
saveWatchlistGroups(st, groups, quotaExceeded) ==
  [state |-> setItem(st, "groups", groups, quotaExceeded), threw |-> quotaExceeded]

\* The codes of a group normalised, without empty codes and repetitions.
normalizeCodes(codes) ==
  LET normalized == [k \in 1..Len(codes) |-> normalizeStockCode(codes[k])]
      keep(k) == /\ Len(normalized[k]) > 0
                 /\ \A j \in 1..(k - 1) : normalized[j] # normalized[k]
      kept == {k \in 1..Len(codes) : keep(k)}
      rank(k) == Cardinality({j \in kept : j <= k})
  IN [n \in 1..Cardinality(kept) |-> normalized[CHOOSE k \in kept : rank(k) = n]]

\* getWatchlistGroups: the parsed groups (or the default ones) normalised;
\* when that changed something they are saved.  Gives the state, the groups
\* returned and whether the save threw.
getWatchlistGroups(st, quotaExceeded) ==
  LET groups == safeJsonParse(st.groups, DEFAULT_WATCHLIST_GROUPS)
      normalize(g) == [g EXCEPT !.codes = normalizeCodes(@)]
      \* what follows `const normalizedGroups = groups.map(...)`
      rest(normalizedGroups) ==
        LET changed == normalizedGroups # groups
            saved == saveWatchlistGroups(st, normalizedGroups, quotaExceeded)
        IN IF changed
             THEN [state |-> saved.state, groups |-> normalizedGroups,
                   threw |-> saved.threw]
             ELSE [state |-> st, groups |-> normalizedGroups, threw |-> FALSE]
  IN CHOOSE got \in { rest(n) : n \in {[g \in 1..Len(groups) |-> normalize(groups[g])]} } :
       TRUE

\* addToWatchlist(code) into the default group.
addToWatchlist(st, code, quotaExceeded) ==
  LET \* what follows `const groups = getWatchlistGroups()`
      rest(normalizedCode, got) ==
        LET groups == got.groups
            hasDefault == \E g \in 1..Len(groups) : groups[g].id = "default"
            d == CHOOSE g \in 1..Len(groups) : groups[g].id = "default"
            included == \E k \in 1..Len(groups[d].codes) :
                          groups[d].codes[k] = normalizedCode
            pushed == [groups EXCEPT ![d].codes = Append(@, normalizedCode)]
        IN IF got.threw THEN [state |-> got.state, threw |-> TRUE]
           ELSE IF hasDefault /\ ~included
                  THEN saveWatchlistGroups(got.state, pushed, quotaExceeded)
           ELSE [state |-> got.state, threw |-> FALSE]
  IN IF Len(normalizeStockCode(code)) = 0 THEN [state |-> st, threw |-> FALSE]
     ELSE CHOOSE done \in { rest(c, g) : c \in {normalizeStockCode(code)},
                                         g \in {getWatchlistGroups(st, quotaExceeded)} } :
            TRUE

\* The codes handed to addToWatchlist: prefixed by the picker, and bare.
WatchCodes ==
  { prefixed("sh", <<6, 0, 0, 0, 0, 1>>), prefixed("bj", <<4, 3, 0, 0, 0, 5>>),
    codeString(<<0, 0, 0, 0, 0, 2>>) }

Outcome(threw) == IF threw THEN "threw" ELSE "returned"

\* ---- actions on the settings and the watch list ----

\* Readers: storeEv keeps what they returned.
LoadFilters ==
  /\ store' = store
  /\ storeEv' = SEv("loadFiltersFromStorage", loadFiltersFromStorage(store), "returned")
  /\ UNCHANGED nonStore

GetWatchlistGroups(quotaExceeded) ==
  /\ \E got \in {getWatchlistGroups(store, quotaExceeded)} :
       /\ store' = got.state
       /\ storeEv' = SEv("getWatchlistGroups", got.groups, Outcome(got.threw))
  /\ UNCHANGED nonStore

\* Writers: storeEv keeps their argument.
SaveFilters(filters, quotaExceeded) ==
  /\ LET done == saveFiltersToStorage(store, filters, quotaExceeded)
     IN /\ store' = done.state
        /\ storeEv' = SEv("saveFiltersToStorage", filters, Outcome(done.threw))
  /\ UNCHANGED nonStore

AddToWatchlist(code, quotaExceeded) ==
  /\ \E done \in {addToWatchlist(store, code, quotaExceeded)} :
       /\ store' = done.state
       /\ storeEv' = SEv("addToWatchlist", code, Outcome(done.threw))
  /\ UNCHANGED nonStore

\* The stored text is damaged from outside the program.
SettingsCorrupted(key) ==
  /\ store[key].json # "corrupt"
  /\ store' = [store EXCEPT ![key] = Corrupt]
  /\ storeEv' = SEv("corrupted", key, "-")
  /\ UNCHANGED nonStore

PersistNext ==
  \/ LoadFilters
  \/ \E q \in BOOLEAN : GetWatchlistGroups(q)
  \/ \E f \in Configs, q \in BOOLEAN : SaveFilters(f, q)
  \/ \E c \in WatchCodes, q \in BOOLEAN : AddToWatchlist(c, q)
  \/ \E k \in {"filters", "groups"} : SettingsCorrupted(k)

\* ---- the watch list as the picker and the pages use it ----

\* removeFromWatchlist(code, groupId); groupId "" is the call without one,
\* which removes the code from every group.  The groups are saved in any case.
removeFromWatchlist(st, code, groupId, quotaExceeded) ==
  LET \* what follows `const groups = getWatchlistGroups()`
      rest(normalizedCode, got) ==
        LET groups == got.groups
            without(g) ==
              [g EXCEPT !.codes = SelectSeq(@, LAMBDA c : c # normalizedCode)]
            filtered == [g \in 1..Len(groups) |->
                           IF groupId = "" \/ groups[g].id = groupId
                             THEN without(groups[g]) ELSE groups[g]]
        IN IF got.threw THEN [state |-> got.state, threw |-> TRUE]
           ELSE saveWatchlistGroups(got.state, filtered, quotaExceeded)
  IN IF Len(normalizeStockCode(code)) = 0 THEN [state |-> st, threw |-> FALSE]
     ELSE CHOOSE done \in { rest(c, g) : c \in {normalizeStockCode(code)},
                                         g \in {getWatchlistGroups(st, quotaExceeded)} } :
            TRUE

\* isInWatchlist(code): the state (getWatchlistGroups may save), whether
\* some group includes the normalized code, and whether the call threw.
isInWatchlist(st, code, quotaExceeded) ==
  LET rest(normalizedCode, got) ==
        [state |-> got.state,
         found |-> /\ ~got.threw
                   /\ \E g \in 1..Len(got.groups) :
                        \E k \in 1..Len(got.groups[g].codes) :
                          got.groups[g].codes[k] = normalizedCode,
         threw |-> got.threw]
  IN IF Len(normalizeStockCode(code)) = 0
       THEN [state |-> st, found |-> FALSE, threw |-> FALSE]
       ELSE CHOOSE done \in { rest(c, g) : c \in {normalizeStockCode(code)},
                                           g \in {getWatchlistGroups(st, quotaExceeded)} } :
              TRUE

\* The picker's handleAddWatchlist for the bare code of a card.
handleAddWatchlist(st, code, quotaExceeded) ==
  addToWatchlist(st, prefixed(addWatchlistPrefix(code), code), quotaExceeded)

\* The picker's handleBatchAddWatchlist, for one selected code of the results.
handleBatchAddWatchlist(st, code, quotaExceeded) ==
  LET rest(seen) ==
        IF seen.threw THEN [state |-> seen.state, threw |-> TRUE]
        ELSE IF ~seen.found
               THEN addToWatchlist(seen.state,
                                   prefixed(batchAddWatchlistPrefix(code), code),
                                   quotaExceeded)
        ELSE [state |-> seen.state, threw |-> FALSE]
  IN CHOOSE done \in { rest(s) : s \in {isInWatchlist(st, codeString(code), quotaExceeded)} } :
       TRUE

\* Bare codes of screening results: one per exchange rule, and a leading 9.
ResultCodes == { <<6, 0, 0, 0, 0, 1>>, <<0, 0, 0, 0, 0, 2>>, <<9, 0, 0, 0, 0, 1>> }

\* The formats a code is accepted in: bare, prefixed, prefixed in capitals,
\* prefixed with a dot, and suffixed in capitals.
upper(market) ==
  IF market = "sh" THEN <<"S", "H">> ELSE IF market = "bj" THEN <<"B", "J">>
  ELSE <<"S", "Z">>
Formats(code) ==
  LET market == addWatchlistPrefix(code)
      lower == SubSeq(prefixed(market, code), 1, 2)
  IN { codeString(code),
       prefixed(market, code),
       upper(market) \o codeString(code),
       lower \o <<".">> \o codeString(code),
       codeString(code) \o <<".">> \o upper(market) }
AcceptedCodes == UNION { Formats(c) : c \in ResultCodes }

TrueFalse(b) == IF b THEN "true" ELSE "false"

\* ---- actions on the watch list (the storage takes every write) ----

PickerAddWatchlist(code) ==
  /\ \E done \in {handleAddWatchlist(store, code, FALSE)} :
       /\ store' = done.state
       /\ storeEv' = SEv("handleAddWatchlist", code, Outcome(done.threw))
  /\ UNCHANGED nonStore

PickerBatchAddWatchlist(code) ==
  /\ \E done \in {handleBatchAddWatchlist(store, code, FALSE)} :
       /\ store' = done.state
       /\ storeEv' = SEv("handleBatchAddWatchlist", code, Outcome(done.threw))
  /\ UNCHANGED nonStore

RemoveFromWatchlist(code, groupId) ==
  /\ \E done \in {removeFromWatchlist(store, code, groupId, FALSE)} :
       /\ store' = done.state
       /\ storeEv' = SEv("removeFromWatchlist", code, Outcome(done.threw))
  /\ UNCHANGED nonStore

\* The card asks whether its code is in the watch list.
IsInWatchlist(code) ==
  /\ \E done \in {isInWatchlist(store, codeString(code), FALSE)} :
       /\ store' = done.state
       /\ storeEv' = SEv("isInWatchlist", code, TrueFalse(done.found))
  /\ UNCHANGED nonStore

WatchlistNext ==
  \/ \E c \in AcceptedCodes : AddToWatchlist(c, FALSE)
  \/ \E c \in AcceptedCodes, g \in {"", "default"} : RemoveFromWatchlist(c, g)
  \/ \E c \in ResultCodes : PickerAddWatchlist(c)
  \/ \E c \in ResultCodes : PickerBatchAddWatchlist(c)
  \/ \E c \in ResultCodes : IsInWatchlist(c)

(***************************************************************************)
(*                          SPECIFICATIONS                                 *)
(***************************************************************************)

\* The polling engine: one subscription, with any options.
InitPoll ==
  /\ poll \in {PollInitial(en, poh, imm) :
                 en \in BOOLEAN, poh \in BOOLEAN, imm \in BOOLEAN}
  /\ pollEv = Ev("init", "-", "-", FALSE)
  /\ board = BoardInitial
  /\ boardEv = BEv("init", FALSE, FALSE)
  /\ cache = << >>
  /\ calls = << >>
  /\ cacheEv = CEv("init", << >>, "-", "-", "-", FALSE)
  /\ now = T0
  /\ keyIn = << >>
  /\ keyOut = << >>
  /\ pick = PickInitial
  /\ pickEv = PEv("init", 0)
  /\ fnIn = NoArgs
  /\ fnOut = NoResult
  /\ store = StoreInitial
  /\ storeEv = SEv("init", "-", "-")

\* The other components start with the subscription not yet mounted.
InitIdle ==
  /\ poll = PollInitial(TRUE, TRUE, TRUE)
  /\ pollEv = Ev("init", "-", "-", FALSE)
  /\ board = BoardInitial
  /\ boardEv = BEv("init", FALSE, FALSE)
  /\ cache = << >>
  /\ calls = << >>
  /\ cacheEv = CEv("init", << >>, "-", "-", "-", FALSE)
  /\ now = T0
  /\ keyIn = << >>
  /\ keyOut = << >>
  /\ pick = PickInitial
  /\ pickEv = PEv("init", 0)
  /\ fnIn = NoArgs
  /\ fnOut = NoResult
  /\ store = StoreInitial
  /\ storeEv = SEv("init", "-", "-")

InitKey ==
  /\ poll = PollInitial(TRUE, TRUE, TRUE)
  /\ pollEv = Ev("init", "-", "-", FALSE)
  /\ board = BoardInitial
  /\ boardEv = BEv("init", FALSE, FALSE)
  /\ cache = << >>
  /\ calls = << >>
  /\ cacheEv = CEv("init", << >>, "-", "-", "-", FALSE)
  /\ now = T0
  /\ keyIn \in {<<a, b>> : a \in KeyCalls, b \in KeyCalls}
  /\ keyOut = << >>
  /\ pick = PickInitial
  /\ pickEv = PEv("init", 0)
  /\ fnIn = NoArgs
  /\ fnOut = NoResult
  /\ store = StoreInitial
  /\ storeEv = SEv("init", "-", "-")

SpecPoll == InitPoll /\ [][PollNext]_vars

\* Time passes and a due timeout callback runs (the event loop); a producer
\* eventually settles.  TimerFire is strongly fair because the model's cap on
\* invocations in flight, not the program, can disable it for a while.
FairSpecPoll ==
  /\ SpecPoll
  /\ WF_vars(PollTick)
  /\ SF_vars(TimerFire)
  /\ WF_vars(SettleSome)

SpecBoard == InitIdle /\ [][BoardNext]_vars

SpecCache == InitIdle /\ [][CacheNext]_vars

KeyNext == ComputeKeys

SpecKey == InitKey /\ [][KeyNext]_vars

SpecPick == InitIdle /\ [][PickNext]_vars

SpecPickUnmount == InitIdle /\ [][PickUnmountNext]_vars

\* A remote call of the run settles: the quotes call of Stage 1, or a
\* timeline fetch of the batch in flight.
RemoteSettles ==
  \/ QuotesReject
  \/ \E m \in Markets : QuotesResolve(m)
  \/ TimelineSettleSome

\* The remote calls of the run eventually settle.
FairSpecPick == SpecPick /\ WF_vars(RemoteSettles)

Spec == SpecPoll

\* The basic filter applied to one quote under one filter configuration.
InitFilter ==
  /\ poll = PollInitial(TRUE, TRUE, TRUE)
  /\ pollEv = Ev("init", "-", "-", FALSE)
  /\ board = BoardInitial
  /\ boardEv = BEv("init", FALSE, FALSE)
  /\ cache = << >>
  /\ calls = << >>
  /\ cacheEv = CEv("init", << >>, "-", "-", "-", FALSE)
  /\ now = T0
  /\ keyIn = << >>
  /\ keyOut = << >>
  /\ pick = PickInitial
  /\ pickEv = PEv("init", 0)
  /\ fnIn \in FilterArgs
  /\ fnOut = NoResult
  /\ store = StoreInitial
  /\ storeEv = SEv("init", "-", "-")

SpecFilter == InitFilter /\ [][FilterNext]_vars

\* The intraday-strength test applied to one timeline under one floor.
InitRatio ==
  /\ poll = PollInitial(TRUE, TRUE, TRUE)
  /\ pollEv = Ev("init", "-", "-", FALSE)
  /\ board = BoardInitial
  /\ boardEv = BEv("init", FALSE, FALSE)
  /\ cache = << >>
  /\ calls = << >>
  /\ cacheEv = CEv("init", << >>, "-", "-", "-", FALSE)
  /\ now = T0
  /\ keyIn = << >>
  /\ keyOut = << >>
  /\ pick = PickInitial
  /\ pickEv = PEv("init", 0)
  /\ fnIn \in RatioArgs
  /\ fnOut = NoResult
  /\ store = StoreInitial
  /\ storeEv = SEv("init", "-", "-")

SpecRatio == InitRatio /\ [][RatioNext]_vars

\* The market prefix inferred for one bare code.
InitPrefix ==
  /\ poll = PollInitial(TRUE, TRUE, TRUE)
  /\ pollEv = Ev("init", "-", "-", FALSE)
  /\ board = BoardInitial
  /\ boardEv = BEv("init", FALSE, FALSE)
  /\ cache = << >>
  /\ calls = << >>
  /\ cacheEv = CEv("init", << >>, "-", "-", "-", FALSE)
  /\ now = T0
  /\ keyIn = << >>
  /\ keyOut = << >>
  /\ pick = PickInitial
  /\ pickEv = PEv("init", 0)
  /\ fnIn \in PrefixArgs
  /\ fnOut = NoResult
  /\ store = StoreInitial
  /\ storeEv = SEv("init", "-", "-")

SpecPrefix == InitPrefix /\ [][PrefixNext]_vars

SpecRecent == InitIdle /\ [][RecentNext]_vars

\* The search history: localStorage outlives the page, so the service starts
\* with what earlier sessions left: nothing, 19 searches, or the full 20.
InitHistory ==
  /\ poll = PollInitial(TRUE, TRUE, TRUE)
  /\ pollEv = Ev("init", "-", "-", FALSE)
  /\ board = BoardInitial
  /\ boardEv = BEv("init", FALSE, FALSE)
  /\ cache = << >>
  /\ calls = << >>
  /\ cacheEv = CEv("init", << >>, "-", "-", "-", FALSE)
  /\ now = T0
  /\ keyIn = << >>
  /\ keyOut = << >>
  /\ pick = PickInitial
  /\ pickEv = PEv("init", 0)
  /\ fnIn = NoArgs
  /\ fnOut = NoResult
  /\ store \in {[StoreInitial EXCEPT !.history =
                   IF n = 0 THEN NoItem ELSE Json(EarlierSearches(n))] :
                  n \in {0, MAX_SEARCH_HISTORY - 1, MAX_SEARCH_HISTORY}}
  /\ storeEv = SEv("init", "-", "-")

SpecHistory == InitHistory /\ [][HistoryNext]_vars

SpecPersist == InitIdle /\ [][PersistNext]_vars

SpecInvalidate == InitIdle /\ [][InvalidateNext]_vars

SpecWatchlist == InitIdle /\ [][WatchlistNext]_vars

(***************************************************************************)
(*                              CLAIMS                                     *)
(***************************************************************************)

\* The producer invocations in flight that the engine itself started (mount,
\* timer, visibility, resume), as opposed to a manual refresh().
EngineInflight(s) ==
  Cardinality({i \in 1..Len(s.inflight) : s.inflight[i].then = "scheduleNext"})

\* C1: no overlap.  The engine never starts producer invocation N+1 before
\* invocation N has settled: at most one invocation the engine started is in
\* flight at any time.
C1_NoOverlap == EngineInflight(poll) <= 1


\* The subscription is mounted, enabled, not paused, and the page is visible.
Active(s) == s.lifecycle = "mounted" /\ s.enabled /\ ~s.isPaused /\ ~s.hidden

\* The last step was the rejection of a producer invocation.
Rejected == pollEv.op = "settle" /\ pollEv.outcome = "err"

\* Either the timeout of the next invocation is pending, or an invocation is in
\* flight whose settlement sets it.
NextScheduled(s) == s.timerRef = "pending" \/ EngineInflight(s) >= 1

\* C2: error resilience.  When the producer rejects on an invocation of an
\* active subscription, the next invocation is scheduled at once, and (FairSpecPoll)
\* it is eventually started unless the subscription stops being active first.
C2_ErrorResilience ==
  /\ [](Rejected /\ Active(poll) => NextScheduled(poll))
  /\ [](Rejected /\ pollEv.then = "scheduleNext" /\ Active(poll)
          => poll.timerRef = "pending")
  /\ ((Rejected /\ Active(poll)) ~> (pollEv.started \/ ~Active(poll)))

\* C2 witness: an invocation started by the engine was rejected on an active
\* subscription, and the timeout of the next one is pending.
C2_Witness ==
  /\ Rejected /\ pollEv.then = "scheduleNext" /\ Active(poll)
  /\ poll.timerRef = "pending"
  /\ poll.inflight = << >>

\* The last step was a call of fetchData: by a caller, by the interval, or by
\* the visibility handler (the last two are never forced).
FetchDataCalled(e) == e.op \in {"fetchData", "interval", "show"}

\* C3: single-flight.  At most one refresh is in flight (isFetchingRef says
\* whether one is), and a call of fetchData made while one is in flight is a
\* no-op: it issues no remote call and changes nothing.
C3_SingleFlight ==
  /\ [](Len(board.flights) <= 1 /\ (board.isFetching <=> Len(board.flights) = 1))
  /\ [][boardEv'.op = "fetchData" /\ Len(board.flights) >= 1
          => board' = board]_vars

\* C3 witness: refresh() was called while a refresh was in flight and issued
\* nothing: one pair of remote calls is outstanding.
C3_Witness ==
  /\ boardEv.op = "fetchData" /\ boardEv.force /\ ~boardEv.issued
  /\ Len(board.flights) = 1
  /\ board.flights[1].industry = 0 /\ board.flights[1].concept = 0

\* The unforced call of this step comes sooner than the minimum interval
\* after the last successful refresh.
TooSoon == board.lastUpdated # 0 /\ now - board.lastUpdated < MIN_REFRESH_INTERVAL

\* The unforced call of this step comes sooner than the minimum interval
\* after an earlier unforced call that fetched.
SecondWithinMin == board.unforcedAt # 0 /\ now - board.unforcedAt < MIN_REFRESH_INTERVAL

\* C4 as claimed: an unforced call sooner than the minimum interval after the
\* last successful refresh issues no remote call, and neither does the second
\* of two unforced calls within the minimum interval.
C4_Original ==
  [][FetchDataCalled(boardEv') /\ ~boardEv'.force /\ (TooSoon \/ SecondWithinMin)
       => ~boardEv'.issued]_vars

\* C4, amended: an unforced call sooner than the minimum interval after the
\* last successful refresh issues no remote call; the second of two unforced
\* calls within the minimum interval issues none unless the fetch of the first
\* was rejected.
C4_Throttle ==
  [][FetchDataCalled(boardEv') /\ ~boardEv'.force
       /\ (TooSoon \/ (SecondWithinMin /\ ~board.unforcedFailed))
       => ~boardEv'.issued /\ board'.flights = board.flights]_vars

\* C4 witness: an unforced call was throttled: nothing was in flight, the last
\* successful refresh was less than the minimum interval ago, nothing issued.
C4_Witness ==
  /\ boardEv.op = "fetchData" /\ ~boardEv.force /\ ~boardEv.issued
  /\ ~board.isFetching
  /\ TooSoon

\* C5 as claimed: refresh(true) always issues a remote round trip.
C5_Original == boardEv.op = "fetchData" /\ boardEv.force => boardEv.issued

\* C5, amended: refresh(true) issues a remote round trip whenever no refresh
\* is in flight, however recently the last successful refresh completed.
C5_Forced ==
  [][boardEv'.op = "fetchData" /\ boardEv'.force /\ ~board.isFetching
       => boardEv'.issued /\ Len(board'.flights) = Len(board.flights) + 1]_vars

\* C5 witness: refresh(true) issued a round trip less than the minimum
\* interval after the last successful refresh.
C5_Witness ==
  /\ boardEv.op = "fetchData" /\ boardEv.force /\ boardEv.issued
  /\ TooSoon

\* The age of the entry stored under k.
Age(k) == now - cache[k].timestamp

\* The map c without its entry under k.
Without(c, k, d) == DOMAIN d = DOMAIN c \ {k} /\ \A x \in DOMAIN d : d[x] = c[x]

\* C6: TTL read.  For every stored entry, get returns the stored value and
\* keeps the entry while it is younger than its ttl, and reports absence and
\* removes the entry (and nothing else) once it is older than its ttl.
C6_TtlRead ==
  \A k \in DOMAIN cache :
    LET r == getFromCache(cache, k, now) IN
    /\ Age(k) < cache[k].ttl => r.value = cache[k].data /\ r.cache = cache
    /\ Age(k) > cache[k].ttl => r.value = NULL /\ Without(cache, k, r.cache)

\* C6 witness: a facade call looked up an entry older than its ttl, which was
\* reported absent and removed.
C6_Witness ==
  /\ cacheEv.op = "miss" /\ cacheEv.evicted
  /\ cacheEv.key \notin DOMAIN cache

\* C7 as claimed: an entry whose age is exactly its ttl is expired: get
\* returns absent at age >= ttl and the value only at age < ttl.
C7_Original ==
  \A k \in DOMAIN cache :
    LET r == getFromCache(cache, k, now) IN
    /\ Age(k) >= cache[k].ttl => r.value = NULL /\ k \notin DOMAIN r.cache
    /\ Age(k) < cache[k].ttl => r.value = cache[k].data

\* C7, amended: an entry whose age is exactly its ttl is still served: get
\* returns the value at age <= ttl and absent at age > ttl.
C7_Boundary ==
  \A k \in DOMAIN cache :
    LET r == getFromCache(cache, k, now) IN
    /\ Age(k) = cache[k].ttl => r.value = cache[k].data /\ r.cache = cache
    /\ Age(k) > cache[k].ttl => r.value = NULL /\ k \notin DOMAIN r.cache

\* C7 witness: a facade call was served an entry whose age is exactly its ttl.
C7_Witness ==
  /\ cacheEv.op = "hit"
  /\ Age(cacheEv.key) = cache[cacheEv.key].ttl
  /\ cacheEv.value = cache[cacheEv.key].data

\* An entry within its ttl is stored under k.
Fresh(c, k, t) == k \in DOMAIN c /\ t - c[k].timestamp <= c[k].ttl
FreshNonNull(c, k, t) == Fresh(c, k, t) /\ c[k].data # NULL

EndpointTtl(k) == (CHOOSE ep \in Endpoints : ep.key = k).ttl

\* The step is a facade call that found a usable entry / that did not.
ServedFromCache ==
  /\ cacheEv'.op = "hit"
  /\ cacheEv'.value = cache[cacheEv'.key].data
  /\ calls' = calls
  /\ cache' = cache
RemoteInvokedOnce ==
  /\ cacheEv'.op = "miss"
  /\ Len(calls') = Len(calls) + 1
  /\ \A i \in 1..Len(calls) : calls'[i] = calls[i]
  /\ calls'[Len(calls')].key = cacheEv'.key
  /\ calls'[Len(calls')].ttl = EndpointTtl(cacheEv'.key)
\* The step is a remote call resolving: its result is stored under the key
\* with the endpoint's ttl, stamped now, and returned.
StoredAndReturned ==
  /\ cacheEv'.kind = "return" /\ cacheEv'.value = cacheEv'.remote
  /\ cacheEv'.key \in DOMAIN cache'
  /\ cache'[cacheEv'.key] = [data |-> cacheEv'.remote, timestamp |-> now,
                             ttl |-> EndpointTtl(cacheEv'.key)]
  /\ \A x \in DOMAIN cache' \ {cacheEv'.key} : x \in DOMAIN cache /\ cache'[x] = cache[x]

\* C8 as claimed: with a fresh entry under the key the remote call is not
\* invoked and the cached value is returned; on a miss the remote call is
\* invoked exactly once and its result is stored and returned.
C8_Original ==
  /\ [][cacheEv'.op \in {"hit", "miss"}
          => IF Fresh(cache, cacheEv'.key, now)
               THEN ServedFromCache ELSE RemoteInvokedOnce]_vars
  /\ [][cacheEv'.op = "resolve" => StoredAndReturned]_vars

\* C8, amended: the same for a fresh entry whose value is not null; a fresh
\* entry holding null counts as a miss.
C8_CachedCall ==
  /\ [][cacheEv'.op \in {"hit", "miss"}
          => IF FreshNonNull(cache, cacheEv'.key, now)
               THEN ServedFromCache ELSE RemoteInvokedOnce]_vars
  /\ [][cacheEv'.op = "resolve" => StoredAndReturned]_vars

\* C8 witness: a result was stored on a miss, and a later call within the ttl
\* was served it without a remote call.
C8_Witness ==
  /\ cacheEv.op = "hit" /\ cacheEv.value # NULL
  /\ cacheEv.value = cache[cacheEv.key].data
  /\ calls = << >>

\* C9 as claimed: when the remote call rejects the error reaches the caller
\* unmodified, nothing is stored, and the cache is what it was before the call.
C9_Original ==
  [][cacheEv'.op = "reject"
       => /\ cacheEv'.kind = "throw" /\ cacheEv'.value = cacheEv'.remote
          /\ cache' = cache
          /\ ~cacheEv'.evicted]_vars

\* C9, amended: when the remote call rejects the error reaches the caller
\* unmodified and the rejection stores nothing (the cache is unchanged by it,
\* so the key is still a miss unless another call stored a usable entry); all
\* the failed call did to the cache is the lookup's removal of an expired
\* entry under its key.
C9_Failure ==
  /\ [][cacheEv'.op = "reject"
          => /\ cacheEv'.kind = "throw" /\ cacheEv'.value = cacheEv'.remote
             /\ cache' = cache
             /\ (~FreshNonNull(cache, cacheEv'.key, now)
                   => ~withCacheCall(cache', cacheEv'.key, now).hit)]_vars
  /\ [][cacheEv'.op = "miss"
          => IF cacheEv'.evicted
               THEN /\ cacheEv'.key \in DOMAIN cache
                    /\ Age(cacheEv'.key) > cache[cacheEv'.key].ttl
                    /\ Without(cache, cacheEv'.key, cache')
               ELSE cache' = cache]_vars

\* C9 witness: a remote call was rejected, the error was thrown to the caller,
\* and the key holds no entry.
C9_Witness ==
  /\ cacheEv.op = "reject" /\ cacheEv.kind = "throw"
  /\ cacheEv.value = cacheEv.remote
  /\ cacheEv.key \notin DOMAIN cache

\* C10: key determinism.  For the same endpoint, value-equal argument lists
\* give the identical key whatever the property order of option objects, and
\* distinct endpoints or value-distinct arguments never share a key.
C10_KeyDeterminism ==
  keyOut # << >> =>
    ((keyIn[1].method = keyIn[2].method /\ ArgsEqual(keyIn[1].args, keyIn[2].args))
       <=> keyOut[1] = keyOut[2])

\* The timeline fetches of the batch in flight that have not settled.
Pending(p) == {n \in 1..Len(p.batch) : ~p.batch[n].settled}

\* C11: cooperative cancellation.  When abort is signalled while a batch is in
\* flight, the signal leaves the batch alone and the run ends only when the
\* last fetch of that batch settles; from the signal on no timeline fetch is
\* started and no results are committed (the displayed list stays empty); the
\* progress callback is invoked once more, by the step in which the in-flight
\* batch completes, and never after it.
C11_Cancellation ==
  /\ [](pick.abortedMidBatch
          => /\ pick.stocks = << >>
             /\ pick.progressAfterAbort <= 1
             /\ (pick.progressAfterAbort = 1 <=> pick.at = "idle")
             /\ (pick.at = "stage3" => Pending(pick) # {}))
  /\ [][pick'.abortedMidBatch
          => pick'.step.started = 0 /\ ~pick'.step.committed]_vars
  /\ [][pickEv'.op = "abort"
          => pick'.batch = pick.batch /\ pick'.at = pick.at]_vars
  /\ [][pick.abortedMidBatch /\ pick.at = "stage3" /\ pick'.at = "idle"
          => Cardinality(Pending(pick)) = 1 /\ pick'.step.progressed]_vars

\* C11 witness: a run of six candidates was aborted while its first batch was
\* in flight; the batch completed (progress 5 of 6), the second batch was
\* never started, nothing was committed and the run has ended.
C11_Witness ==
  /\ pick.abortedMidBatch /\ pick.at = "idle" /\ ~pick.isLoading
  /\ pick.loadingProgress = [completed |-> 5, total |-> 6, stage |-> "stage3"]
  /\ pick.progressAfterAbort = 1
  /\ pick.stocks = << >>
  /\ pick.step.started = 0

\* C12: Stage-3 batching.  A step that starts timeline fetches starts at most
\* batchSize of them and only when every fetch started before has settled, so
\* the outstanding timeline requests never exceed batchSize.
C12_Batching ==
  /\ [](Cardinality(Pending(pick)) <= batchSize /\ Len(pick.batch) <= batchSize)
  /\ [][pick'.step.started > 0
          => /\ pick'.step.started <= batchSize
             /\ Cardinality(Pending(pick')) = pick'.step.started
             /\ Cardinality(Pending(pick)) <= 1]_vars

\* C12 witness: of six candidates the first five were fetched and have all
\* settled, and the step that settled the last of them started the sixth.
C12_Witness ==
  /\ pick.at = "stage3" /\ pick.i = batchSize
  /\ Len(pick.basicStocks) = 6
  /\ pick.step.started = 1
  /\ Cardinality(Pending(pick)) = 1
  /\ pickEv.op \in {"timeline", "timelineRejected"}

\* The results of the batch entries other than k, in batch order.
OthersGot(p, k) ==
  SelectSeq([n \in 1..Len(p.batch) |->
               IF n = k THEN NoStock ELSE p.batch[n].result],
            LAMBDA r : r # NoStock)

SameElements(a, b) ==
  /\ Len(a) = Len(b)
  /\ {a[n] : n \in 1..Len(a)} = {b[n] : n \in 1..Len(b)}

\* C13: Stage-3 per-symbol failure.  A rejected timeline fetch raises no
\* error and only drops its symbol: while the batch is in flight the other
\* entries are untouched; when it was the last fetch of the batch the results
\* of the others are kept, the next batch (if any, and unless abort is set) is
\* fetched, and otherwise the results of every other symbol are committed.
C13_SymbolFailure ==
  [][pickEv'.op = "timelineRejected"
       => LET k == pickEv'.k
              kept == pick.results \o OthersGot(pick, k)
              rest == Len(pick.basicStocks) - (pick.i + batchSize)
          IN /\ pick'.step.toast = "none"
             /\ IF Pending(pick) # {k}
                  THEN /\ pick'.at = "stage3"
                       /\ pick'.batch[k].result = NoStock
                       /\ \A n \in 1..Len(pick.batch) \ {k} :
                            pick'.batch[n] = pick.batch[n]
                       /\ pick'.results = pick.results
                  ELSE IF pick.abort
                    THEN pick'.at = "idle" /\ ~pick'.step.committed
                  ELSE IF rest > 0
                    THEN /\ pick'.at = "stage3"
                         /\ pick'.results = kept
                         /\ pick'.step.started
                              = (IF rest < batchSize THEN rest ELSE batchSize)
                         /\ pick'.batch[1].stock = pick.basicStocks[pick.i + batchSize + 1]
                    ELSE /\ pick'.at = "idle"
                         /\ pick'.step.committed
                         /\ SameElements(pick'.stocks, kept)]_vars

\* C13 witness: a run of six candidates in which a timeline fetch rejected
\* has committed the symbols that passed.
C13_Witness ==
  /\ pick.hadReject /\ pick.step.committed /\ pick.at = "idle"
  /\ pick.loadingProgress = [completed |-> 6, total |-> 6, stage |-> "stage3"]
  /\ Len(pick.stocks) >= 2
  /\ ~pick.abort

\* C14: Stage-1 failure.  When the full-market fetch rejects the run ends in
\* that step: an error toast is raised, Stage 2 and Stage 3 are not entered
\* (no progress beyond Stage 1, no timeline fetch), nothing is committed, the
\* result list is empty and the loading flag is cleared.
C14_Stage1Failure ==
  [][pickEv'.op = "quotesRejected"
       => /\ pick'.step.toast = "error"
          /\ pick'.at = "idle" /\ ~pick'.isLoading
          /\ pick'.step.started = 0 /\ ~pick'.step.progressed
          /\ pick'.batch = << >>
          /\ pick'.loadingProgress.stage = "stage1"
          /\ ~pick'.step.committed
          /\ pick'.stocks = << >>
          /\ pick'.hasAnalyzed = pick.hasAnalyzed]_vars

\* C14 witness: after a run that showed results, a second run failed in
\* Stage 1: the error is raised and the list is empty.
C14_Witness ==
  /\ pickEv.op = "quotesRejected" /\ pick.runs = 2 /\ pick.hasAnalyzed
  /\ pick.step.toast = "error"
  /\ pick.stocks = << >> /\ ~pick.isLoading

\* The last step was the completion of a fetch: Promise.all resolved or
\* rejected and fetchData ran to its end.
FetchCompleted(e) == e.op \in {"resolved", "rejected"}

\* C15: loading flag.  loading is true at creation and stays true until a
\* fetch completes; the completion of a fetch, successful or not, leaves it
\* false (while the provider is mounted); once false it is never true again.
C15_LoadingFlag ==
  /\ [](board.lifecycle = "new" => board.loading)
  /\ [][board.loading /\ ~FetchCompleted(boardEv') => board'.loading]_vars
  /\ [][FetchCompleted(boardEv') /\ board'.lifecycle = "mounted"
          => ~board'.loading]_vars
  /\ [][~board.loading => ~board'.loading]_vars

\* C15 witness: the first fetch failed, which cleared loading, and a later
\* refresh is in flight with loading still false.
C15_Witness ==
  /\ board.lifecycle = "mounted" /\ ~board.loading
  /\ board.lastUpdated = 0
  /\ board.isFetching /\ Len(board.flights) = 1
  /\ boardEv.op \in {"fetchData", "interval"} /\ boardEv.issued

\* The step started a producer invocation of the engine (not a manual
\* refresh() of the consumer).
EngineStarted(e) == e.started /\ e.op # "refresh"

\* C16: visibility gating, hidden.  With pauseOnHidden, while the page is
\* hidden no timer is pending and the engine starts no producer invocation.
C16_HiddenGating ==
  /\ [](poll.lifecycle = "mounted" /\ poll.pauseOnHidden /\ poll.hidden
          => poll.timerRef # "pending")
  /\ [][poll.pauseOnHidden /\ poll.hidden /\ poll'.hidden
          => ~EngineStarted(pollEv')]_vars

\* C17: visibility gating, visible.  With pauseOnHidden, the step in which the
\* page becomes visible starts a producer invocation when the subscription is
\* enabled and not paused, and starts nothing otherwise; when that invocation
\* settles on a mounted subscription the timer is armed with the full interval.
C17_VisibleGating ==
  /\ [][pollEv'.op = "show" /\ poll.pauseOnHidden
          => IF poll.enabled /\ ~poll.isPaused
               THEN /\ pollEv'.started
                    /\ Len(poll'.inflight) = Len(poll.inflight) + 1
                    /\ poll'.inflight[Len(poll'.inflight)].then = "scheduleNext"
                    /\ poll'.isLoading
               ELSE ~pollEv'.started /\ poll'.inflight = poll.inflight]_vars
  /\ [][pollEv'.op = "settle" /\ pollEv'.then = "scheduleNext" /\ Active(poll')
          => poll'.timerRef = "pending" /\ poll'.timerLeft = Interval]_vars

\* C17 witness: the page became visible with no timer pending and nothing in
\* flight, and the producer was invoked in that step.
C17_Witness ==
  /\ pollEv.op = "show" /\ pollEv.started /\ poll.pauseOnHidden
  /\ poll.timerRef = "null"
  /\ Len(poll.inflight) = 1

\* C18: pause.  While the subscription is paused no timer is pending and no
\* timer-driven producer invocation is started.
C18_Pause ==
  /\ [](poll.lifecycle = "mounted" /\ poll.isPaused => poll.timerRef # "pending")
  /\ [][poll.isPaused /\ poll'.isPaused => pollEv'.op # "timer"]_vars

\* C19: teardown.  Once the consumer has unmounted no timer is pending, no
\* producer invocation is started, and isLoading and lastRefresh do not change,
\* also when an invocation in flight at the unmount settles.
C19_Teardown ==
  /\ [](poll.lifecycle = "unmounted" => poll.timerRef # "pending")
  /\ [][poll'.lifecycle = "unmounted"
          => /\ ~pollEv'.started
             /\ Len(poll'.inflight) <= Len(poll.inflight)
             /\ poll'.isLoading = poll.isLoading
             /\ poll'.lastRefresh = poll.lastRefresh]_vars

\* C19 witness: an invocation was in flight at the unmount and has settled
\* since: isLoading was left as it was and no timer is pending.
C19_Witness ==
  /\ poll.lifecycle = "unmounted"
  /\ pollEv.op = "settle" /\ pollEv.outcome = "ok" /\ pollEv.then = "scheduleNext"
  /\ poll.isLoading /\ poll.lastRefresh = 0
  /\ poll.timerRef # "pending"
  /\ poll.inflight = << >>

\* C20 as claimed: with immediate the mount invokes the producer; without it
\* the engine invokes the producer only once a full interval has elapsed
\* since the mount.
C20_Original ==
  /\ [][pollEv'.op = "mount" /\ poll.immediate /\ poll.enabled
          => pollEv'.started]_vars
  /\ [][~poll.immediate /\ EngineStarted(pollEv')
          => poll.sinceStart >= Interval]_vars

\* C20, amended: the mount of an enabled subscription invokes the producer
\* exactly when immediate is set; without immediate it arms the timer with the
\* full interval, and the engine then invokes the producer only from the timer
\* once it has run its full interval, or at once when the page becomes visible.
C20_Immediate ==
  /\ [][pollEv'.op = "mount"
          => (pollEv'.started <=> (poll.immediate /\ poll.enabled))]_vars
  /\ [][pollEv'.op = "mount" /\ ~poll.immediate /\ poll.enabled
          => poll'.timerRef = "pending" /\ poll'.timerLeft = Interval]_vars
  /\ [][~poll.immediate /\ EngineStarted(pollEv')
          => \/ pollEv'.op = "timer" /\ poll.timerLeft = 0
             \/ pollEv'.op = "show" /\ poll.pauseOnHidden]_vars

\* C20 witness: a subscription without immediate invoked the producer for the
\* first time from its timer, a full interval after the mount.
C20_Witness ==
  /\ ~poll.immediate /\ pollEv.op = "timer" /\ pollEv.started
  /\ poll.sinceStart = Interval
  /\ poll.lastRefresh = 0 /\ Len(poll.inflight) = 1

\* ---- C21 ----
\* The name carries an ST marker: the letters S, T next to each other.
HasSTMarker(name) == \E k \in 1..(Len(name) - 1) : name[k] = "S" /\ name[k + 1] = "T"

\* The fields other than the name are within the configured limits (a null
\* field is within no limit).
OtherFieldsPass(q, f) ==
  /\ q.circulatingMarketCap # NullNum
  /\ f.marketCapMin <= q.circulatingMarketCap
  /\ q.circulatingMarketCap <= f.marketCapMax
  /\ q.volumeRatio # NullNum
  /\ q.volumeRatio >= f.volumeRatioMin
  /\ f.changePercentMin <= q.changePercent
  /\ q.changePercent <= f.changePercentMax
  /\ q.turnoverRate # NullNum
  /\ f.turnoverRateMin <= q.turnoverRate
  /\ q.turnoverRate <= f.turnoverRateMax

\* C21: a quote is among the candidates of filterStocksBasic exactly when
\* its market cap, volume ratio, change percent and turnover rate are within
\* the configured limits and, with excludeST set, its name has no ST marker;
\* with excludeST set a marked quote is excluded whatever its other fields,
\* with excludeST unset it is included whenever the other fields pass.
C21_BasicFilter ==
  fnOut.fn = "filterStocksBasic" =>
    LET q == fnIn.quote
        f == fnIn.filters
        passed == Len(fnOut.list) = 1
    IN /\ Len(fnOut.list) <= 1
       /\ passed <=> (OtherFieldsPass(q, f) /\ (f.excludeST => ~HasSTMarker(fnIn.name)))
       /\ passed => fnOut.list[1].code = q.code /\ fnOut.list[1].changePercent = q.changePercent
       /\ f.excludeST /\ HasSTMarker(fnIn.name) => ~passed
       /\ ~f.excludeST /\ OtherFieldsPass(q, f) => passed

\* An ST-marked quote with passing fields was included with excludeST unset.
C21_Witness ==
  /\ fnOut.fn = "filterStocksBasic"
  /\ HasSTMarker(fnIn.name)
  /\ ~fnIn.filters.excludeST
  /\ Len(fnOut.list) = 1

\* ---- C22 ----
\* C22: when the basic filter gives no candidate, the step that ran it
\* reports "no candidates" (the info toast) and ends the run: it issues no
\* timeline fetch, enters no Stage-3 batch, reports no Stage-3 progress and
\* leaves the picker not loading, analysed, with the empty list.
C22_ShortCircuit ==
  [][pick'.step.candidates = 0 =>
       /\ pick'.step.toast = "info"
       /\ pick'.at = "idle"
       /\ pick'.step.started = 0
       /\ Len(pick'.batch) = 0
       /\ ~pick'.step.progressed
       /\ pick'.loadingProgress.stage # "stage3"
       /\ ~pick'.step.committed
       /\ pick'.stocks = << >>
       /\ ~pick'.isLoading
       /\ pick'.hasAnalyzed]_vars

\* Quotes arrived, none passed the basic filter, and the run is over.
C22_Witness ==
  /\ pickEv.op = "quotes"
  /\ pick.step.candidates = 0
  /\ pick.step.toast = "info"
  /\ pick.at = "idle"

\* ---- C23 ----
\* The points of a timeline whose price is at or above the average price.
AboveAvg(timeline) ==
  Cardinality({k \in 1..Len(timeline) : timeline[k].price >= timeline[k].avgPrice})

\* C23: the candidate is retained exactly when the fraction of its intraday
\* points at or above the average price, as a percentage, is at or above
\* the configured floor (no points: the ratio is 0); the ratio kept with a
\* retained candidate is that fraction.
C23_IntradayStrength ==
  fnOut.fn = "timelineRatio" =>
    LET n == Len(fnIn.timeline)
        above == AboveAvg(fnIn.timeline)
        retained == fnOut.result # NoStock
    IN /\ retained <=> IF n = 0 THEN 0 >= fnIn.minRatio
                                ELSE 100 * above >= fnIn.minRatio * n
       /\ retained /\ n > 0 =>
            fnOut.result.timelineAboveAvgRatio = [num |-> 100 * above, den |-> n]

\* ---- C24 ----
\* The rule: first digit 6 or 9 is sh, 0 or 3 is sz, 4 or 8 is bj.
RuleDigits == {0, 3, 4, 6, 8, 9}
RulePrefix(d) ==
  IF d \in {6, 9} THEN <<"s", "h">>
  ELSE IF d \in {0, 3} THEN <<"s", "z">>
  ELSE <<"b", "j">>

\* C24: for a bare six-digit code whose first digit is one the rule names,
\* every place gives the rule's prefix followed by the code: the picker's
\* timeline fetch, card navigation, add-to-watch-list (single and batch),
\* parseStockCode and normalizeStockCode.
C24_MarketPrefix ==
  fnOut.fn = "marketPrefix" /\ Head(fnIn.code) \in RuleDigits =>
    LET want == RulePrefix(Head(fnIn.code))
        full == want \o codeString(fnIn.code)
    IN /\ fnOut.timeline = full
       /\ fnOut.card = full
       /\ fnOut.watch = full
       /\ fnOut.batchWatch = full
       /\ fnOut.parsed = [market |-> want, symbol |-> codeString(fnIn.code)]
       /\ fnOut.normalized = full

\* ---- C25 ----
\* The persisted recent-use list, as the program reads it.
RecentList == loadRecentUsageFromStorage(store)

NoEqualConfigs(list) ==
  \A j, k \in 1..Len(list) : j # k => list[j].filters # list[k].filters

HasConfig(list, filters) == \E k \in 1..Len(list) : list[k].filters = filters

\* C25 as stated: after every run start the persisted list has at most 5
\* entries, no two with equal configurations, and contains the
\* configuration of the most recent run.
C25_Original ==
  /\ Len(RecentList) <= 5
  /\ NoEqualConfigs(RecentList)
  /\ storeEv.op = "runStart" => HasConfig(RecentList, storeEv.arg)

\* C25: the persisted list always has at most 5 entries, no two with equal
\* configurations; after a run start it contains the configuration of the
\* run unless the write of the list failed, and a failed write leaves the
\* stored list as it was.
C25_RecentUsage ==
  /\ [](/\ Len(RecentList) <= 5
        /\ NoEqualConfigs(RecentList)
        /\ storeEv.op = "runStart" /\ storeEv.outcome # "writeFailed"
             => HasConfig(RecentList, storeEv.arg))
  /\ [][storeEv'.op = "runStart" /\ storeEv'.outcome = "writeFailed"
          => store'.recent = store.recent]_vars

\* A run with a sixth configuration was recorded at the head of a full list,
\* and the oldest entry was dropped.
C25_Witness ==
  /\ storeEv.op = "runStart"
  /\ storeEv.outcome = "written"
  /\ store.sliced
  /\ Len(RecentList) = 5
  /\ RecentList[1].filters = storeEv.arg

\* ---- C26 ----
\* The stored search history, as the service reads it.
SearchHistory == getSearchHistory(store)

\* C26: the stored history has at most 20 items, no two items share a code,
\* and the items are ordered most-recent-first; after an addSearchHistory
\* that returned, the added item is at the head with the time of the call.
\* (An addSearchHistory whose write threw has added nothing.)
C26_SearchHistory ==
  /\ Len(SearchHistory) <= 20
  /\ \A j, k \in 1..Len(SearchHistory) :
       j # k => SearchHistory[j].code # SearchHistory[k].code
  /\ \A j, k \in 1..Len(SearchHistory) :
       j < k => SearchHistory[j].timestamp >= SearchHistory[k].timestamp
  /\ storeEv.op = "addSearchHistory" /\ storeEv.outcome = "returned" =>
       /\ Len(SearchHistory) >= 1
       /\ SearchHistory[1] = [code |-> storeEv.arg, timestamp |-> now]
  /\ storeEv.op = "clearSearchHistory" => SearchHistory = << >>

\* A new code was added to a full history: it is at the head, the history
\* still has 20 items and the oldest one is gone.
C26_Witness ==
  /\ storeEv.op = "addSearchHistory"
  /\ storeEv.outcome = "returned"
  /\ storeEv.arg = 21
  /\ Len(SearchHistory) = 20
  /\ SearchHistory[1].code = 21
  /\ \A k \in 1..Len(SearchHistory) : SearchHistory[k].code # 1

\* ---- C27 ----
\* C27: no call into the persistence layer throws; a reader whose item is
\* missing or does not parse returns its default; a writer whose write hits
\* the quota returns normally and leaves the stored item as it was.
C27_PersistenceFailures ==
  /\ [](storeEv.outcome # "threw")
  /\ [][storeEv'.op = "loadFiltersFromStorage" /\ store.filters.json # "ok"
          => storeEv'.arg = DEFAULT_FILTERS]_vars
  /\ [][storeEv'.op = "getWatchlistGroups" /\ store.groups.json # "ok"
          => storeEv'.arg = DEFAULT_WATCHLIST_GROUPS]_vars

\* ---- C28 ----
\* The key is the string, or the string followed by more text.
EqualsOrExtends(key, str) == \E n \in 0..Len(key) : SubSeq(key, 1, n) = str

\* C28: clearCacheByPrefix with a string removes the entry whose key equals
\* it and every entry whose key starts with it, and leaves every other
\* entry (data, timestamp and ttl) as it was; clearAllCache removes every
\* entry.  Neither touches a call in flight.
C28_Invalidation ==
  /\ [][cacheEv'.op = "clearCacheByPrefix" =>
          /\ DOMAIN cache' = {k \in DOMAIN cache : ~EqualsOrExtends(k, cacheEv'.key)}
          /\ \A k \in DOMAIN cache' : cache'[k] = cache[k]
          /\ calls' = calls]_vars
  /\ [][cacheEv'.op = "clearAllCache" => DOMAIN cache' = {} /\ calls' = calls]_vars

\* An invalidation by a method name removed two entries and left a third.
C28_Witness ==
  /\ cacheEv.op = "clearCacheByPrefix"
  /\ cacheEv.key = << <<"m", "getFullQuotes">> >>
  /\ cacheEv.kind = "many"
  /\ Cardinality(DOMAIN cache) = 1

\* ---- C29 ----
\* The state the picker displays.
Displayed(p) == <<p.isLoading, p.loadingProgress, p.stocks, p.hasAnalyzed>>

\* C29: once the view has unmounted, the run it left behind issues no
\* further timeline fetch (no further Stage-3 batch) and commits no state;
\* and no run is started while another is in flight, so what is displayed
\* comes from the most recently started run.
C29_StaleRun ==
  /\ [][~pick.mounted => pick'.step.started = 0 /\ Displayed(pick') = Displayed(pick)]_vars
  /\ [][pickEv'.op = "start" => pick.at = "idle"]_vars

\* ---- C30 ----
\* C30: visibility gating of the board-data store.  While the page is hidden
\* the provider holds no active refresh timer, and no step taken while hidden
\* starts a refresh, the completion of a refresh that was in flight when the
\* page was hidden included (a consumer's own refresh() call aside).
C30_BoardHiddenGating ==
  /\ [](board.lifecycle = "mounted" /\ board.hidden => board.timerRef # "active")
  /\ [][board.lifecycle = "mounted" /\ board.hidden /\ board'.hidden
          /\ boardEv'.op # "fetchData"
        => ~boardEv'.issued]_vars

\* ---- C31 ----
\* The step settles the last pending fetch of the batch in flight.
BatchCompletes ==
  /\ pick.at = "stage3"
  /\ pickEv'.op \in {"timeline", "timelineRejected"}
  /\ Cardinality(Pending(pick)) = 1

C32_RefreshCadence ==
  [][~board.hidden /\ ~board'.hidden /\ boardEv'.op # "fetchData" /\ boardEv'.issued
       => boardEv'.op \in {"mount", "interval"}]_vars

\* ---- C33 ----
\* C33: accuracy of isLoading.  While the subscription is mounted, isLoading
\* is true exactly when at least one producer invocation is in flight.
C33_IsLoadingAccuracy ==
  poll.lifecycle = "mounted" => (poll.isLoading <=> Len(poll.inflight) >= 1)

\* ---- C34 ----
\* C34: the enabled flag.  While enabled is false the subscription holds no
\* pending timer and the engine starts no producer invocation, also when
\* enabled turned false while an invocation was in flight.
C34_EnabledFlag ==
  /\ [](poll.lifecycle = "mounted" /\ ~poll.enabled => poll.timerRef # "pending")
  /\ [][~poll.enabled /\ ~poll'.enabled => ~EngineStarted(pollEv')]_vars

\* ---- C35 ----
\* The entry under k holds a null result.
HoldsNull(c, k) == k \in DOMAIN c /\ c[k].data = NULL

\* C35: null results are never served from the cache.  A remote call that
\* resolves to null is stored like any other result, but a lookup of the entry
\* is a miss: every facade call whose key holds a null result invokes the
\* remote call again, within the ttl too.
C35_NullNeverServed ==
  /\ [][cacheEv'.op = "resolve" /\ cacheEv'.remote = NULL
          => HoldsNull(cache', cacheEv'.key)]_vars
  /\ [](\A k \in DOMAIN cache : HoldsNull(cache, k) => ~withCacheCall(cache, k, now).hit)
  /\ [][cacheEv'.op \in {"hit", "miss"} /\ HoldsNull(cache, cacheEv'.key)
          => RemoteInvokedOnce]_vars

\* C35 witness: a facade call found a null result younger than its ttl under
\* its key, and invoked the remote call.
C35_Witness ==
  /\ cacheEv.op = "miss" /\ ~cacheEv.evicted
  /\ HoldsNull(cache, cacheEv.key)
  /\ Fresh(cache, cacheEv.key, now)
  /\ Len(calls) >= 1 /\ calls[Len(calls)].key = cacheEv.key

\* ---- C36 ----
\* The codes of the default group as stored.
StoredCodes(st) ==
  IF st.groups.json = "ok" THEN st.groups.value[1].codes ELSE << >>

\* C36: round trip of the picker's add-to-watch-list.  After the picker has
\* added the bare code of a result (handleAddWatchlist or the batch add),
\* isInWatchlist of that bare code is true, and the stored group holds no
\* code twice.
C36_AddRoundTrip ==
  [][storeEv'.op \in {"handleAddWatchlist", "handleBatchAddWatchlist"}
       => /\ isInWatchlist(store', codeString(storeEv'.arg), FALSE).found
          /\ \A j, k \in 1..Len(StoredCodes(store')) :
               j # k => StoredCodes(store')[j] # StoredCodes(store')[k]]_vars

\* ---- C37 ----
\* C37: recovery of the board-data store.  When a refresh fails the lists and
\* lastUpdated are what they were, the in-flight guard is released and no
\* refresh is in flight, so that a refresh request made then issues its
\* remote calls.
C37_BoardRecovery ==
  [][boardEv'.op = "rejected"
       => /\ board'.industryList = board.industryList
          /\ board'.conceptList = board.conceptList
          /\ board'.lastUpdated = board.lastUpdated
          /\ ~board'.isFetching
          /\ board'.flights = << >>
          /\ Issued(board', fetchData(board', TRUE, now))]_vars

\* C37 witness: a refresh failed after an earlier one had loaded the lists;
\* they are still there and the guard is released.
C37_Witness ==
  /\ boardEv.op = "rejected"
  /\ board.lifecycle = "mounted"
  /\ board.lastUpdated # 0 /\ board.industryList # 0 /\ board.conceptList # 0
  /\ ~board.isFetching

\* ---- C38 ----
\* C38: termination of a screening run.  When every remote call eventually
\* settles (FairSpecPick), a run that was started eventually ends, and a run
\* that has ended has the loading flag cleared, whichever way it ended.
C38_Termination ==
  /\ [](pick.at = "idle" /\ pick.mounted => ~pick.isLoading)
  /\ (pick.isLoading ~> (pick.at = "idle" /\ ~pick.isLoading))

\* C38 witness: a run that was aborted while a batch was in flight has ended
\* and the loading flag is cleared.
C38_Witness ==
  /\ pick.runs >= 1 /\ pick.at = "idle" /\ ~pick.isLoading
  /\ pick.abort /\ pick.abortedMidBatch
  /\ pickEv.op \in {"timeline", "timelineRejected"}

\* ---- C39 ----
\* The codes are normalized (each carries its market prefix, and
\* normalizeStockCode leaves it as it is) and no code occurs twice.
NormalizedNoDuplicates(codes) ==
  /\ \A k \in 1..Len(codes) :
       /\ Len(parseStockCode(codes[k]).market) > 0
       /\ normalizeStockCode(codes[k]) = codes[k]
  /\ \A j, k \in 1..Len(codes) : j # k => codes[j] # codes[k]

\* C39: uniqueness in the watch list.  After any sequence of adds and removes
\* with codes in any accepted format, every group getWatchlistGroups returns
\* (and every group stored) holds only normalized codes, none twice; and an
\* addToWatchlist of a code whose normalized form the group already holds
\* leaves the stored groups as they were.
C39_WatchlistUniqueness ==
  /\ [](\A g \in 1..Len(getWatchlistGroups(store, FALSE).groups) :
          NormalizedNoDuplicates(getWatchlistGroups(store, FALSE).groups[g].codes))
  /\ [](NormalizedNoDuplicates(StoredCodes(store)))
  /\ [][/\ storeEv'.op = "addToWatchlist"
        /\ \E k \in 1..Len(StoredCodes(store)) :
             StoredCodes(store)[k] = normalizeStockCode(storeEv'.arg)
        => store' = store]_vars

====
